---- MODULE Spec2Model ----
(***************************************************************************)
(* Model of the TCS / Infosys comparison dashboards:                       *)
(*   Project.py, levelup.py, Revenue_analysis.py  (yfinance pipeline)      *)
(*   Finance.py                                   (CSV pipeline)           *)
(*   clg.py                                       (fixed yearly data)      *)
(* Floating point values are modelled as exact rationals extended with     *)
(* the IEEE specials: a value is a pair <<n, d>> with d >= 0, where        *)
(* <<0,0>> is NaN, <<1,0>> is +inf, <<-1,0>> is -inf and d > 0 is the      *)
(* reduced fraction n/d.  Rounding error of the binary representation is   *)
(* not modelled.                                                           *)
(***************************************************************************)
EXTENDS Integers, Sequences, FiniteSets, TLC

----------------------------------------------------------------------------
(* numpy.float64 arithmetic *)

Abs(x) == IF x < 0 THEN -x ELSE x

Sign(x) == IF x < 0 THEN -1 ELSE IF x > 0 THEN 1 ELSE 0

RECURSIVE GCD(_, _)
GCD(a, b) == IF b = 0 THEN a ELSE GCD(b, a % b)

Norm(n, d) ==
    IF d = 0 THEN <<Sign(n), 0>>
    ELSE LET s == IF d < 0 THEN -1 ELSE 1
             g == GCD(Abs(n), Abs(d))
         IN  <<(s * n) \div g, (s * d) \div g>>

NaN == <<0, 0>>
PInf == <<1, 0>>
NInf == <<-1, 0>>
Num(i) == <<i, 1>>
Zero == <<0, 1>>
One == <<1, 1>>
Hundred == <<100, 1>>

IsNaN(v) == v = NaN
IsInf(v) == v = PInf \/ v = NInf
IsFinite(v) == Len(v) = 2 /\ v[2] > 0
IsZero(v) == v = Zero

Neg(a) == <<-a[1], a[2]>>

Add(a, b) ==
    IF IsNaN(a) \/ IsNaN(b) THEN NaN
    ELSE IF IsInf(a) /\ IsInf(b) THEN (IF a = b THEN a ELSE NaN)
    ELSE IF IsInf(a) THEN a
    ELSE IF IsInf(b) THEN b
    ELSE Norm(a[1] * b[2] + b[1] * a[2], a[2] * b[2])

Sub(a, b) == Add(a, Neg(b))

Mul(a, b) == Norm(a[1] * b[1], a[2] * b[2])

\* 1/x: 1/0 is +inf, 1/inf is 0, 1/NaN is NaN
Inv(a) == IF a = Zero THEN PInf ELSE Norm(a[2] * Sign(a[1]), Abs(a[1]))

\* x / y on numpy.float64: never raises, x/0 is +-inf or NaN
Div(a, b) == Mul(a, Inv(b))

Lt(a, b) ==
    IF IsNaN(a) \/ IsNaN(b) THEN FALSE
    ELSE IF a = b THEN FALSE
    ELSE IF a = NInf \/ b = PInf THEN TRUE
    ELSE IF a = PInf \/ b = NInf THEN FALSE
    ELSE a[1] * b[2] < b[1] * a[2]

Le(a, b) == (a = b /\ ~IsNaN(a)) \/ Lt(a, b)

IsInteger(v) == IsFinite(v) /\ v[2] = 1

\* b ** k on integers, cut off once the product leaves the range in which
\* results are kept exact
RECURSIVE IPowAcc(_, _, _)
IPowAcc(b, k, acc) ==
    IF k = 0 \/ acc > 1000000 THEN acc ELSE IPowAcc(b, k - 1, acc * b)

IPow(b, k) == IF b <= 1 THEN b + (IF k = 0 THEN 1 - b ELSE 0) ELSE IPowAcc(b, k, 1)

\* the integer k-th root of x when x is a perfect k-th power, else -1
IRoot(x, k) ==
    IF x <= 1 THEN x
    ELSE IF \E r \in 2..x : IPow(r, k) = x
    THEN CHOOSE r \in 2..x : IPow(r, k) = x
    ELSE -1

\* b ** e with b finite and positive, b # 1, e finite and non-zero.  The
\* result is the exact rational when there is one in range; any other result
\* is kept as the 4-tuple <<bn, bd, en, ed>> standing for (bn/bd) ** (en/ed).
PowPos(b, e) ==
    LET k  == Abs(e[1])
        rn == IRoot(b[1], e[2])
        rd == IRoot(b[2], e[2])
    IN  IF rn >= 0 /\ rd >= 0 /\ IPow(rn, k) <= 1000000 /\ IPow(rd, k) <= 1000000
        THEN (IF e[1] > 0 THEN Norm(IPow(rn, k), IPow(rd, k))
                          ELSE Norm(IPow(rd, k), IPow(rn, k)))
        ELSE <<b[1], b[2], e[1], e[2]>>

IsSym(v) == Len(v) > 2

\* numpy.float64 ** float for a base >= 0 (revenues are not negative):
\* never raises.
Pow(b, e) ==
    IF e = Zero \/ b = One THEN One
    ELSE IF IsNaN(b) \/ IsNaN(e) THEN NaN
    ELSE IF e = PInf THEN (IF Lt(b, One) THEN Zero ELSE PInf)
    ELSE IF e = NInf THEN (IF Lt(b, One) THEN PInf ELSE Zero)
    ELSE IF b = PInf THEN (IF Lt(Zero, e) THEN PInf ELSE Zero)
    ELSE IF b = Zero THEN (IF Lt(Zero, e) THEN Zero ELSE PInf)
    ELSE IF Lt(b, Zero) THEN NaN
    ELSE PowPos(b, e)

\* (x - 1) * 100; on an irrational x the result is the 5-tuple x \o <<100>>
PctOfFactor(x) ==
    IF IsSym(x) THEN Append(x, 100) ELSE Mul(Sub(x, One), Hundred)

\* 1 + r / 100, the inverse of PctOfFactor
FactorOfPct(r) ==
    IF IsSym(r) THEN SubSeq(r, 1, 4) ELSE Add(Div(r, Hundred), One)

\* x ** p for a factor x that may be irrational: (b ** e) ** p = b ** (e * p)
PowFactor(x, p) ==
    IF IsSym(x) THEN Pow(<<x[1], x[2]>>, Mul(<<x[3], x[4]>>, p)) ELSE Pow(x, p)

----------------------------------------------------------------------------
(* Dates.  A Timestamp is a day count since 1970-01-01; the string          *)
(* 'YYYY-MM-DD' is the triple <<y, m, d>>: its fields are zero padded, so   *)
(* string comparison is the lexicographic comparison of the triple.        *)

\* pd.to_datetime(s) for s = 'YYYY-MM-DD', as a day count
to_datetime(s) ==
    LET y   == IF s[2] <= 2 THEN s[1] - 1 ELSE s[1]
        era == y \div 400
        yoe == y - era * 400
        mp  == (s[2] + 9) % 12
        doy == (153 * mp + 2) \div 5 + s[3] - 1
        doe == yoe * 365 + yoe \div 4 - yoe \div 100 + doy
    IN  era * 146097 + doe - 719468

\* Timestamp.strftime('%Y-%m-%d')
strftime(z0) ==
    LET z   == z0 + 719468
        era == z \div 146097
        doe == z - era * 146097
        yoe == (doe - doe \div 1460 + doe \div 36524 - doe \div 146096) \div 365
        doy == doe - (365 * yoe + yoe \div 4 - yoe \div 100)
        mp  == (5 * doy + 2) \div 153
        d   == doy - (153 * mp + 2) \div 5 + 1
        m   == IF mp < 10 THEN mp + 3 ELSE mp - 9
        y   == yoe + era * 400 + (IF m <= 2 THEN 1 ELSE 0)
    IN  <<y, m, d>>

\* s < t on 'YYYY-MM-DD' strings
StrLt(s, t) ==
    \/ s[1] < t[1]
    \/ s[1] = t[1] /\ s[2] < t[2]
    \/ s[1] = t[1] /\ s[2] = t[2] /\ s[3] < t[3]

\* round(x, 2) on a float: half to even on the scaled value; NaN and the
\* infinities round to themselves, an irrational value is kept as it is
round2(v) ==
    IF IsSym(v) \/ ~IsFinite(v) THEN v
    ELSE LET x   == v[1] * 100
             q   == x \div v[2]
             rem == x - q * v[2]
             r   == IF 2 * rem > v[2] THEN q + 1
                    ELSE IF 2 * rem = v[2] THEN q + (q % 2)
                    ELSE q
         IN  Norm(r, 100)

----------------------------------------------------------------------------
(* The CAGR helpers.  A call ends in a record [exc, val]: exc is "none"     *)
(* and val the returned float, or exc names the exception that left the    *)
(* call and val is NaN.                                                    *)

Returned(v) == [exc |-> "none", val |-> v]
Raised(e) == [exc |-> e, val |-> NaN]

\* levelup.py calculate_cagr(start_value, end_value, years)
calculate_cagr_levelup(start_value, end_value, years) ==
    IF start_value = Zero \/ end_value = Zero \/ Le(years, Zero)
    THEN Returned(NaN)
    ELSE Returned(PctOfFactor(Pow(Div(end_value, start_value), Inv(years))))

\* clg.py calculate_cagr(start, end, periods): called on Python floats and a
\* Python int, whose division by zero raises
calculate_cagr_clg(start, end, periods) ==
    IF start = Zero \/ periods = Zero THEN Raised("ZeroDivisionError")
    ELSE IF Div(end, start) = Zero /\ Lt(periods, Zero)
    THEN Raised("ZeroDivisionError")
    ELSE Returned(PctOfFactor(Pow(Div(end, start), Inv(periods))))

\* Finance.py calculate_cagr(start_value, end_value, periods): called on
\* numpy.float64 means and a numpy integer year difference; numpy division
\* by zero gives inf or NaN and does not raise
calculate_cagr_Finance(start_value, end_value, periods) ==
    Returned(PctOfFactor(Pow(Div(end_value, start_value), Inv(periods))))

\* Project.py, the body of the CAGR loop: rev_start and rev_end are
\* numpy.float64, n_years is a Python float and 1 / n_years raises on 0.0
cagr_Project(rev_start, rev_end, n_years) ==
    IF n_years = Zero THEN Raised("ZeroDivisionError")
    ELSE Returned(PctOfFactor(Pow(Div(rev_end, rev_start), Inv(n_years))))

----------------------------------------------------------------------------
(* State *)

VARIABLES
    pc,                 \* position of the running script
    exc,                \* the uncaught exception that ended the script, or "none"
    \* Project.py (tab3 is the same code in levelup.py and Revenue_analysis.py)
    selected_stocks,    \* the sidebar multiselect
    loaded,             \* number of iterations of the load loop done
    fetched,            \* per iteration, how many price and revenue rows came back
    stock_data,         \* company -> price table
    revenue_data_all,   \* concatenated revenue rows
    aligned_df, growth_df, pivot_df, qoq_growth, yoy_growth,
    cagr_data, best_worst,
    bound,              \* the names tab2 and tab3 assign only on some branches
    snapshot,           \* the three cards of the latest-quarter snapshot
    kpi,                \* levelup.py: the four KPIs and what is written for them
    \* a single call of a CAGR helper
    cagr_args, cagr_call,
    \* load_data(ticker) on its own
    download,           \* the Close column yf.download returns
    price_df,           \* the table load_data returns
    \* Finance.py
    tcs, infosys,       \* the two tables read from the CSV files
    option,             \* the sidebar selectbox
    data,               \* the filtered data
    cagr_table,         \* the rows of the CAGR comparison table
    \* a single call of a forecast or ratio function
    call_in,            \* the function and its arguments, as they are now
    call_out,           \* what the call returned or raised
    in_flight           \* the calls in flight, each with its own frame

pipeVars == <<selected_stocks, loaded, fetched, stock_data, revenue_data_all, aligned_df,
              growth_df, pivot_df, qoq_growth, yoy_growth, cagr_data, best_worst,
              bound, snapshot, kpi>>
callVars == <<cagr_args, cagr_call>>
priceVars == <<download, price_df>>
finVars == <<tcs, infosys, option, data, cagr_table>>
fnVars == <<call_in, call_out, in_flight>>
vars == <<pc, exc, pipeVars, callVars, priceVars, finVars, fnVars>>

Companies == {"TCS", "INFY"}
\* the companies in ascending string order, as groupby and pivot list them
CompanyOrder == <<"INFY", "TCS">>

----------------------------------------------------------------------------
(* Bounds and inputs *)

NumQuarters == 2
MaxRevenue == 2

\* quarter ends the provider may report, as 'YYYY-MM-DD'
QuarterEnds ==
    << <<2023, 6, 30>>, <<2023, 9, 30>>, <<2023, 12, 31>>, <<2024, 3, 31>>,
       <<2024, 6, 30>>, <<2024, 9, 30>>, <<2024, 12, 31>>, <<2025, 3, 31>> >>

\* the column labels of quarterly_financials: Timestamps
QuarterTs == {to_datetime(QuarterEnds[i]) : i \in 1..NumQuarters}

Range(f) == {f[i] : i \in DOMAIN f}

\* the 'Total Revenue' row: one (Timestamp, revenue) per reported quarter, in
\* any order, no Timestamp twice
RevenueRows ==
    UNION {{t \in [1..k -> QuarterTs \X (0..MaxRevenue)] :
               \A i, j \in 1..k : i # j => t[i][1] # t[j][1]} : k \in 0..NumQuarters}

\* what yf.Ticker(ticker).quarterly_financials does: it raises, or returns
\* financials without a 'Total Revenue' row, or with one
RevenueOutcomes ==
    {[kind |-> "raise", rows |-> <<>>], [kind |-> "norow", rows |-> <<>>]}
    \cup {[kind |-> "table", rows |-> t] : t \in RevenueRows}

\* what yf.download returns: the Close column of the price table.  An empty
\* price table is combined with a few revenue outcomes only.
NoPrices == <<>>
SomePrices == <<Num(1), Num(2)>>
ProviderOutcomes ==
    {[Close |-> SomePrices, fin |-> r] : r \in RevenueOutcomes}
    \cup {[Close |-> NoPrices, fin |-> r] :
             r \in {x \in RevenueOutcomes : Len(x.rows) = 0}}

----------------------------------------------------------------------------
(* Project.py: loading *)

RECURSIVE Sum(_)
Sum(xs) == IF xs = <<>> THEN Zero ELSE Add(Head(xs), Sum(Tail(xs)))

\* the sample standard deviation (ddof = 1) of the values of one window
WindowStd(xs) ==
    LET n    == Len(xs)
        mean == Div(Sum(xs), Num(n))
        sq   == [i \in 1..n |-> Mul(Sub(xs[i], mean), Sub(xs[i], mean))]
    IN  Pow(Div(Sum(sq), Num(n - 1)), <<1, 2>>)

\* rolling_std without the leading undefined points
rolling_std_trimmed(series, w) ==
    [i \in 1..(IF Len(series) >= w THEN Len(series) - w + 1 ELSE 0) |->
        WindowStd(SubSeq(series, i, i + w - 1))]

\* Series.rolling(window=w).std(): min_periods is the window, the result is
\* indexed like the series
rolling_std(series, w) ==
    [i \in 1..Len(series) |->
        IF i < w THEN NaN ELSE WindowStd(SubSeq(series, i - w + 1, i))]

Window == 20

\* load_data(ticker), on the Close column yf.download returned
load_data(Close) ==
    IF Close = <<>>
    THEN [Close |-> Close, Volatility |-> <<>>]
    ELSE [Close |-> Close, Volatility |-> rolling_std(Close, Window)]

\* get_revenue_data labelling every row 'TCS', whatever the name passed
get_revenue_data_one_label(fin, name) ==
    IF fin.kind = "table"
    THEN [i \in 1..Len(fin.rows) |->
            LET Revenue    == Num(fin.rows[i][2])
                Net_Profit == Mul(Revenue, <<1, 5>>)
            IN  [Quarter |-> strftime(fin.rows[i][1]),
                 Revenue |-> Revenue,
                 Company |-> "TCS",
                 Net_Profit |-> Net_Profit,
                 Operating_Margin |-> Mul(Div(Net_Profit, Revenue), Hundred)]]
    ELSE <<>>

\* get_revenue_data with Net Profit a quarter of the Revenue
get_revenue_data_quarter_profit(fin, name) ==
    IF fin.kind = "table"
    THEN [i \in 1..Len(fin.rows) |->
            LET Revenue    == Num(fin.rows[i][2])
                Net_Profit == Mul(Revenue, <<1, 4>>)
            IN  [Quarter |-> strftime(fin.rows[i][1]),
                 Revenue |-> Revenue,
                 Company |-> name,
                 Net_Profit |-> Net_Profit,
                 Operating_Margin |-> Mul(Div(Net_Profit, Revenue), Hundred)]]
    ELSE <<>>

\* get_revenue_data(ticker, name), on what quarterly_financials did
get_revenue_data(fin, name) ==
    IF fin.kind = "table"
    THEN [i \in 1..Len(fin.rows) |->
            LET Revenue    == Num(fin.rows[i][2])
                Net_Profit == Mul(Revenue, <<1, 5>>)
            IN  [Quarter |-> strftime(fin.rows[i][1]),
                 Revenue |-> Revenue,
                 Company |-> name,
                 Net_Profit |-> Net_Profit,
                 Operating_Margin |-> Mul(Div(Net_Profit, Revenue), Hundred)]]
    ELSE <<>>

\* InsertByQuarter keeping the later Quarter first
RECURSIVE InsertByQuarter_latest_first(_, _)
InsertByQuarter_latest_first(r, s) ==
    IF s = <<>> THEN <<r>>
    ELSE IF StrLt(Head(s).Quarter, r.Quarter) THEN <<r>> \o s
    ELSE <<Head(s)>> \o InsertByQuarter_latest_first(r, Tail(s))

RECURSIVE InsertByQuarter(_, _)
InsertByQuarter(r, s) ==
    IF s = <<>> THEN <<r>>
    ELSE IF StrLt(r.Quarter, Head(s).Quarter) THEN <<r>> \o s
    ELSE <<Head(s)>> \o InsertByQuarter(r, Tail(s))

\* sort_by_Quarter leaving the rows as they are
sort_by_Quarter_as_fetched(rows) == rows

\* df.sort_values(by='Quarter')
RECURSIVE sort_by_Quarter(_)
sort_by_Quarter(rows) ==
    IF rows = <<>> THEN <<>>
    ELSE InsertByQuarter(Head(rows), sort_by_Quarter(Tail(rows)))

\* LoadedRevenue without the sort: the rows in the provider's order
LoadedRevenue_unsorted(fin, stock) == get_revenue_data(fin, stock)

\* the revenue table one iteration of the load loop appends
LoadedRevenue(fin, stock) ==
    sort_by_Quarter(get_revenue_data(fin, stock))

----------------------------------------------------------------------------
(* Project.py: tab3, Growth Insights *)

\* the companies of a frame, in ascending order
SortedCompanies(rows) ==
    SelectSeq(CompanyOrder, LAMBDA c : \E i \in DOMAIN rows : rows[i].Company = c)

GroupRows(rows, c) == SelectSeq(rows, LAMBDA r : r.Company = c)

\* common_quarters as a union: every quarter some company reports
common_quarters_union(rows) == {rows[i].Quarter : i \in DOMAIN rows}

\* revenue_data_all.groupby("Company")["Quarter"].apply(set), then
\* set.intersection over the companies that have rows
common_quarters(rows) ==
    {q \in {rows[i].Quarter : i \in DOMAIN rows} :
        \A c \in Range(SortedCompanies(rows)) :
            \E i \in DOMAIN rows : rows[i].Company = c /\ rows[i].Quarter = q}

\* revenue_data_all[revenue_data_all["Quarter"].isin(common_quarters)]
align(rows) ==
    LET common == common_quarters(rows)
    IN  SelectSeq(rows, LAMBDA r : r.Quarter \in common)

RECURSIVE Concat(_)
Concat(ss) == IF ss = <<>> THEN <<>> ELSE Head(ss) \o Concat(Tail(ss))

\* df.sort_values(by=["Company", "Quarter"])
sort_by_Company_Quarter(rows) ==
    LET cs == SortedCompanies(rows)
    IN  Concat([k \in 1..Len(cs) |-> sort_by_Quarter(GroupRows(rows, cs[k]))])

\* BaseValue taken at the last row of the group instead of the first
BaseValue_last(x) == x[Len(x)].Revenue

\* the base of a group: x.iloc[0]
BaseValue(x) == x[1].Revenue

\* growth_df: aligned_df sorted, with the Normalized Revenue column
\* groupby("Company")["Revenue"].transform(lambda x: (x / x.iloc[0]) * 100)
normalize(aligned) ==
    LET sorted == sort_by_Company_Quarter(aligned)
    IN  [i \in 1..Len(sorted) |->
            LET x == GroupRows(sorted, sorted[i].Company)
            IN  [Quarter |-> sorted[i].Quarter,
                 Revenue |-> sorted[i].Revenue,
                 Company |-> sorted[i].Company,
                 Normalized_Revenue |->
                     Mul(Div(sorted[i].Revenue, BaseValue(x)), Hundred)]]

RECURSIVE InsertStr(_, _)
InsertStr(q, s) ==
    IF s = <<>> THEN <<q>>
    ELSE IF q = Head(s) THEN s
    ELSE IF StrLt(q, Head(s)) THEN <<q>> \o s
    ELSE <<Head(s)>> \o InsertStr(q, Tail(s))

\* the distinct Quarter strings of a frame in ascending order
RECURSIVE SortedQuarters(_)
SortedQuarters(rows) ==
    IF rows = <<>> THEN <<>>
    ELSE InsertStr(Head(rows).Quarter, SortedQuarters(Tail(rows)))

\* the Revenue of the row of company c at quarter q; NaN when there is none
CellValue(rows, q, c) ==
    IF \E i \in DOMAIN rows : rows[i].Quarter = q /\ rows[i].Company = c
    THEN (rows[CHOOSE i \in DOMAIN rows :
                  rows[i].Quarter = q /\ rows[i].Company = c]).Revenue
    ELSE NaN

\* aligned_df.pivot(index="Quarter", columns="Company", values="Revenue"):
\* index and columns are sorted
pivot(rows) ==
    LET cs == SortedCompanies(rows)
        qs == SortedQuarters(rows)
    IN  [columns |-> cs,
         rows |-> [i \in 1..Len(qs) |->
                     [Quarter |-> qs[i],
                      val |-> [c \in Range(cs) |-> CellValue(rows, qs[i], c)]]]]

\* df.pct_change(periods): df / df.shift(periods) - 1
pct_change(df, periods) ==
    [columns |-> df.columns,
     rows |-> [i \in 1..Len(df.rows) |->
                 [Quarter |-> df.rows[i].Quarter,
                  val |-> [c \in Range(df.columns) |->
                             IF i <= periods THEN NaN
                             ELSE Sub(Div(df.rows[i].val[c],
                                          df.rows[i - periods].val[c]), One)]]]]

\* df.dropna(): the rows without a NaN
dropna(df) ==
    [columns |-> df.columns,
     rows |-> SelectSeq(df.rows,
                  LAMBDA r : \A c \in Range(df.columns) : ~IsNaN(r.val[c]))]

\* df * 100
times100(df) ==
    [columns |-> df.columns,
     rows |-> [i \in 1..Len(df.rows) |->
                 [Quarter |-> df.rows[i].Quarter,
                  val |-> [c \in Range(df.columns) |->
                             Mul(df.rows[i].val[c], Hundred)]]]]

\* the growth table: pivot_df.pct_change(periods).dropna() * 100
growth_table(df, periods) == times100(dropna(pct_change(df, periods)))

RECURSIVE InsertByTs(_, _)
InsertByTs(r, s) ==
    IF s = <<>> THEN <<r>>
    ELSE IF r.Quarter < Head(s).Quarter THEN <<r>> \o s
    ELSE <<Head(s)>> \o InsertByTs(r, Tail(s))

RECURSIVE sort_index(_)
sort_index(rows) ==
    IF rows = <<>> THEN <<>>
    ELSE InsertByTs(Head(rows), sort_index(Tail(rows)))

\* yoy_df: pivot_df with its index parsed by pd.to_datetime and sorted
yoy_frame(df) ==
    [columns |-> df.columns,
     rows |-> sort_index([i \in 1..Len(df.rows) |->
                            [Quarter |-> to_datetime(df.rows[i].Quarter),
                             val |-> df.rows[i].val]])]

YoYLag == 4

\* n_years of the CAGR loop: the day span of the index over 365.25
n_years(df) ==
    Norm(4 * (to_datetime(df.rows[Len(df.rows)].Quarter)
              - to_datetime(df.rows[1].Quarter)), 1461)

\* one iteration of the CAGR loop, for one column of pivot_df
cagr_of(df, company) ==
    cagr_Project(df.rows[1].val[company],
                 df.rows[Len(df.rows)].val[company],
                 n_years(df))

\* the CAGR loop over pivot_df.columns: the calls in order, up to and
\* including the first that raises
RECURSIVE cagr_loop(_, _)
cagr_loop(df, cols) ==
    IF cols = <<>> THEN <<>>
    ELSE LET call == cagr_of(df, Head(cols))
         IN  IF call.exc # "none" THEN <<[Company |-> Head(cols), call |-> call]>>
             ELSE <<[Company |-> Head(cols), call |-> call]>>
                  \o cagr_loop(df, Tail(cols))

\* Series.idxmax(): the first position of the maximum
idxmax(x) ==
    CHOOSE i \in DOMAIN x :
        /\ \A j \in DOMAIN x : Le(x[j].Revenue, x[i].Revenue)
        /\ \A j \in 1..(i - 1) : x[j].Revenue # x[i].Revenue

\* Series.idxmin(): the first position of the minimum
idxmin(x) ==
    CHOOSE i \in DOMAIN x :
        /\ \A j \in DOMAIN x : Le(x[i].Revenue, x[j].Revenue)
        /\ \A j \in 1..(i - 1) : x[j].Revenue # x[i].Revenue

\* stats_df.groupby("Company").agg(Best_Quarter, Worst_Quarter, Max_Revenue,
\* Min_Revenue, Avg_Growth): one row per company, each group in the row
\* order of stats_df
best_worst_of(stats_df) ==
    LET cs == SortedCompanies(stats_df)
    IN  [k \in 1..Len(cs) |->
            LET x == GroupRows(stats_df, cs[k])
            IN  [Company |-> cs[k],
                 Best_Quarter |-> x[idxmax(x)].Quarter,
                 Worst_Quarter |-> x[idxmin(x)].Quarter,
                 Max_Revenue |-> x[idxmax(x)].Revenue,
                 Min_Revenue |-> x[idxmin(x)].Revenue,
                 Avg_Growth |-> Div(Sum([i \in 1..Len(x) |-> x[i].Revenue]),
                                    Num(Len(x)))]]

\* what st.metric or st.write shows: a formatted amount under a label, or a
\* fixed text
Amount(label, v) == [text |-> "amount", label |-> label, amount |-> v]
Text(t) == [text |-> t, label |-> "", amount |-> NaN]
NotShown == Text("")

\* f"{x:,.0f}": the float rounded to an integer, half to even
format0(v) ==
    IF IsSym(v) \/ ~IsFinite(v) THEN v
    ELSE LET q   == v[1] \div v[2]
             rem == v[1] - q * v[2]
             r   == IF 2 * rem > v[2] THEN q + 1
                    ELSE IF 2 * rem = v[2] THEN q + (q % 2)
                    ELSE q
         IN  Num(r)

\* latest_quarter taken from the last row of the table
latest_quarter_of_last_row(rows) == rows[Len(rows)].Quarter

\* the largest Quarter string of the table
latest_quarter(rows) ==
    CHOOSE q \in {rows[i].Quarter : i \in DOMAIN rows} :
        \A i \in DOMAIN rows : rows[i].Quarter = q \/ StrLt(rows[i].Quarter, q)

\* snapshot_df: the rows of the latest quarter
latest_snapshot(rows) ==
    SelectSeq(rows, LAMBDA r : r.Quarter = latest_quarter(rows))

\* snapshot_df[snapshot_df['Company'] == c]['Revenue'].values
revenue_of(snapshot_df, c) ==
    LET sel == SelectSeq(snapshot_df, LAMBDA r : r.Company = c)
    IN  [i \in 1..Len(sel) |-> sel[i].Revenue]

\* revenue_gap showing the difference with its sign
revenue_gap_signed(tcs_rev, infy_rev) ==
    LET gap == Sub(tcs_rev, infy_rev)
    IN  Amount(IF Lt(Zero, gap) THEN "Revenue Gap (TCS - INFY)"
               ELSE "Revenue Gap (INFY - TCS)",
               format0(gap))

\* the Revenue Gap card when both revenues are truthy
revenue_gap(tcs_rev, infy_rev) ==
    LET gap == Sub(tcs_rev, infy_rev)
    IN  Amount(IF Lt(Zero, gap) THEN "Revenue Gap (TCS - INFY)"
               ELSE "Revenue Gap (INFY - TCS)",
               format0(IF Lt(gap, Zero) THEN Neg(gap) ELSE gap))

----------------------------------------------------------------------------
(* Project.py as a state machine: the script runs top to bottom *)

EmptyFrame == [columns |-> <<>>, rows |-> <<>>]

\* the orders in which the multiselect can hold its options
Selections == {<<>>, <<"TCS">>, <<"INFY">>, <<"TCS", "INFY">>, <<"INFY", "TCS">>}

NoCall == [variant |-> "none", exc |-> "none", val |-> NaN]
NoArgs == <<Zero, Zero, Zero>>
NoPriceTable == [Close |-> <<>>, Volatility |-> <<>>]

NoSnapshot == [tcs |-> NotShown, infy |-> NotShown, gap |-> NotShown]
NoKpi == [cagr_tcs |-> NaN, cagr_infy |-> NaN, yoy_tcs |-> NaN, yoy_infy |-> NaN,
          shown |-> <<>>]

\* the variables of the parts of the repository that are not running
PipeIdle ==
    /\ selected_stocks = <<>>
    /\ loaded = 0
    /\ fetched = <<>>
    /\ stock_data = [c \in {} |-> 0]
    /\ revenue_data_all = <<>>
    /\ aligned_df = <<>>
    /\ growth_df = <<>>
    /\ pivot_df = EmptyFrame
    /\ qoq_growth = EmptyFrame
    /\ yoy_growth = EmptyFrame
    /\ cagr_data = <<>>
    /\ best_worst = <<>>
    /\ bound = {}
    /\ snapshot = NoSnapshot
    /\ kpi = NoKpi

CallIdle == cagr_args = NoArgs /\ cagr_call = NoCall

PriceIdle == download = <<>> /\ price_df = NoPriceTable

FinIdle ==
    /\ tcs = <<>>
    /\ infosys = <<>>
    /\ option = "none"
    /\ data = <<>>
    /\ cagr_table = <<>>

NoFn == [fn |-> "none"]
NoResult == [exc |-> "none", rows |-> <<>>]

FnIdle == call_in = NoFn /\ call_out = NoResult /\ in_flight = <<>>

Init ==
    /\ pc = "load"
    /\ exc = "none"
    /\ selected_stocks \in Selections
    /\ loaded = 0
    /\ fetched = <<>>
    /\ stock_data = [c \in {} |-> 0]
    /\ revenue_data_all = <<>>
    /\ aligned_df = <<>>
    /\ growth_df = <<>>
    /\ pivot_df = EmptyFrame
    /\ qoq_growth = EmptyFrame
    /\ yoy_growth = EmptyFrame
    /\ cagr_data = <<>>
    /\ best_worst = <<>>
    /\ bound = {}
    /\ snapshot = NoSnapshot
    /\ kpi = NoKpi
    /\ CallIdle
    /\ PriceIdle
    /\ FinIdle
    /\ FnIdle

\* one iteration of "for stock in selected_stocks" (lines 65-80), on one of
\* the given provider outcomes
LoadStockFrom(outcomes) ==
    /\ pc = "load"
    /\ loaded < Len(selected_stocks)
    /\ \E out \in outcomes :
        LET stock   == selected_stocks[loaded + 1]
            df      == load_data(out.Close)
            revenue == get_revenue_data(out.fin, stock)
        IN  /\ stock_data' = IF df.Close = <<>> THEN stock_data
                             ELSE (stock :> df) @@ stock_data
            /\ revenue_data_all' =
                   IF revenue # <<>>
                   THEN revenue_data_all \o LoadedRevenue(out.fin, stock)
                   ELSE revenue_data_all
            /\ fetched' = Append(fetched, [prices |-> Len(out.Close),
                                           revenue |-> Len(revenue)])
    /\ loaded' = loaded + 1
    /\ UNCHANGED <<pc, exc, selected_stocks, aligned_df, growth_df, pivot_df,
                   qoq_growth, yoy_growth, cagr_data, best_worst, bound, snapshot,
                   kpi, callVars, priceVars, finVars, fnVars>>

LoadStock == LoadStockFrom(ProviderOutcomes)

\* the load loop is over
LoadDone ==
    /\ pc = "load"
    /\ loaded = Len(selected_stocks)
    /\ pc' = "tab2"
    /\ UNCHANGED <<exc, pipeVars, callVars, priceVars, finVars, fnVars>>

\* "with tab2:" when there is no revenue row: nothing runs
Tab2Skip ==
    /\ pc = "tab2"
    /\ revenue_data_all = <<>>
    /\ pc' = "tab3"
    /\ UNCHANGED <<exc, pipeVars, callVars, priceVars, finVars, fnVars>>

\* "Latest Quarter Financial Snapshot" (lines 180-211)
Tab2 ==
    /\ pc = "tab2"
    /\ revenue_data_all # <<>>
    /\ LET snapshot_df == latest_snapshot(revenue_data_all)
           has_tcs     == revenue_of(snapshot_df, "TCS") # <<>>
           has_infy    == revenue_of(snapshot_df, "INFY") # <<>>
           tcs_rev     == revenue_of(snapshot_df, "TCS")[1]
           infy_rev    == revenue_of(snapshot_df, "INFY")[1]
       IN  /\ bound' = bound \cup (IF has_tcs THEN {"tcs_rev"} ELSE {})
                             \cup (IF has_infy THEN {"infy_rev"} ELSE {})
           /\ snapshot' =
                  [tcs  |-> IF has_tcs THEN Amount("TCS Revenue", format0(tcs_rev))
                            ELSE Text("No Data"),
                   infy |-> IF has_infy THEN Amount("INFY Revenue", format0(infy_rev))
                            ELSE Text("No Data"),
                   gap  |-> IF ~has_tcs THEN Text("Error")
                            ELSE IF tcs_rev = Zero THEN Text("Insufficient Data")
                            ELSE IF ~has_infy THEN Text("Error")
                            ELSE IF infy_rev = Zero THEN Text("Insufficient Data")
                            ELSE revenue_gap(tcs_rev, infy_rev)]
    /\ pc' = "tab3"
    /\ UNCHANGED <<exc, selected_stocks, loaded, fetched, stock_data, revenue_data_all,
                   aligned_df, growth_df, pivot_df, qoq_growth, yoy_growth,
                   cagr_data, best_worst, kpi, callVars, priceVars, finVars, fnVars>>

\* "with tab3:" (lines 286-412) when there is no revenue row: nothing runs
Tab3Skip ==
    /\ pc = "tab3"
    /\ revenue_data_all = <<>>
    /\ pc' = "done"
    /\ UNCHANGED <<exc, pipeVars, callVars, priceVars, finVars, fnVars>>

\* "with tab3:" (lines 286-412) with revenue rows
Tab3 ==
    /\ pc = "tab3"
    /\ revenue_data_all # <<>>
    /\ LET aligned == align(revenue_data_all)
           pivoted == pivot(aligned)
           calls   == cagr_loop(pivoted, pivoted.columns)
           failed  == calls # <<>> /\ calls[Len(calls)].call.exc # "none"
       IN  /\ aligned_df' = aligned
           /\ growth_df' = normalize(aligned)
           /\ pivot_df' = pivoted
           /\ qoq_growth' = growth_table(pivoted, 1)
           /\ yoy_growth' = growth_table(yoy_frame(pivoted), YoYLag)
           /\ cagr_data' =
                  [k \in 1..(IF failed THEN Len(calls) - 1 ELSE Len(calls)) |->
                      <<calls[k].Company, round2(calls[k].call.val)>>]
           /\ exc' = IF failed THEN calls[Len(calls)].call.exc ELSE "none"
           /\ best_worst' = IF failed THEN best_worst ELSE best_worst_of(aligned)
    /\ bound' = bound \cup {"growth_df"}
    /\ pc' = "done"
    /\ UNCHANGED <<selected_stocks, loaded, fetched, stock_data, revenue_data_all, snapshot,
                   kpi, callVars, priceVars, finVars, fnVars>>

Next == LoadStock \/ LoadDone \/ Tab2Skip \/ Tab2 \/ Tab3Skip \/ Tab3

Spec == Init /\ [][Next]_vars

----------------------------------------------------------------------------
(* levelup.py as a state machine: the load loop and tab2 are those of      *)
(* Project.py, tab3 stops after the normalization, and the KPI section     *)
(* follows the tabs at top level                                           *)

MaxLevelupQuarters == 6

\* the 'Total Revenue' rows of the latest n quarters, newest first; the
\* revenue grows by one a quarter, and quarter z (if any) reports 0
LevelupRows ==
    {[i \in 1..n |->
        <<to_datetime(QuarterEnds[n + 1 - i]),
          IF n + 1 - i = z THEN 0 ELSE n + 1 - i>>] :
        n \in 0..MaxLevelupQuarters, z \in 0..MaxLevelupQuarters}

LevelupOutcomes ==
    {[Close |-> SomePrices, fin |-> [kind |-> "table", rows |-> t]] :
        t \in LevelupRows}
    \cup {[Close |-> c, fin |-> [kind |-> k, rows |-> <<>>]] :
             c \in {NoPrices, SomePrices}, k \in {"raise", "norow"}}

\* calculate_yoy_growth taking the change relative to the current value
calculate_yoy_growth_of_current(current_value, previous_value) ==
    IF previous_value = Zero THEN NaN
    ELSE Mul(Div(Sub(current_value, previous_value), current_value), Hundred)

\* calculate_yoy_growth(current_value, previous_value) (lines 247-250)
calculate_yoy_growth(current_value, previous_value) ==
    IF previous_value = Zero THEN NaN
    ELSE Mul(Div(Sub(current_value, previous_value), previous_value), Hundred)

\* growth_df[growth_df['Company'] == c]['Revenue']
revenue_series(df, c) ==
    LET sel == SelectSeq(df, LAMBDA r : r.Company = c)
    IN  [i \in 1..Len(sel) |-> sel[i].Revenue]

\* st.write(f"**{name}:** {v:.2f}%") if not np.isnan(v) else
\* st.write("**{name}:** Insufficient Data")
kpi_line(name, v) ==
    IF IsNaN(v) THEN [text |-> "Insufficient Data", label |-> name, amount |-> NaN]
    ELSE Amount(name, round2(v))

LevelupLoadStock == LoadStockFrom(LevelupOutcomes)

\* "with tab3:" (lines 212-237) when there is no revenue row: nothing runs
LevelupTab3Skip ==
    /\ pc = "tab3"
    /\ revenue_data_all = <<>>
    /\ pc' = "kpi"
    /\ UNCHANGED <<exc, pipeVars, callVars, priceVars, finVars, fnVars>>

\* "with tab3:" (lines 212-237) with revenue rows
LevelupTab3 ==
    /\ pc = "tab3"
    /\ revenue_data_all # <<>>
    /\ aligned_df' = align(revenue_data_all)
    /\ growth_df' = normalize(align(revenue_data_all))
    /\ bound' = bound \cup {"growth_df"}
    /\ pc' = "kpi"
    /\ UNCHANGED <<exc, selected_stocks, loaded, fetched, stock_data, revenue_data_all,
                   pivot_df, qoq_growth, yoy_growth, cagr_data, best_worst,
                   snapshot, kpi, callVars, priceVars, finVars, fnVars>>

\* "CAGR & YoY Growth Analysis" (lines 240-302) when growth_df was never
\* assigned: line 254 reads it
LevelupKpisUnbound ==
    /\ pc = "kpi"
    /\ "growth_df" \notin bound
    /\ exc' = "NameError"
    /\ pc' = "done"
    /\ UNCHANGED <<pipeVars, callVars, priceVars, finVars, fnVars>>

\* LevelupKpis gating each company on the length of its own series
LevelupKpis_gated_separately ==
    /\ pc = "kpi"
    /\ "growth_df" \in bound
    /\ LET tcs_revenue  == revenue_series(growth_df, "TCS")
           infy_revenue == revenue_series(growth_df, "INFY")
           nt           == Len(tcs_revenue)
           ni           == Len(infy_revenue)
           cagr_tcs     == IF nt >= 2
                           THEN calculate_cagr_levelup(tcs_revenue[1], tcs_revenue[nt],
                                                       Norm(nt, 4)).val
                           ELSE NaN
           cagr_infy    == IF ni >= 2
                           THEN calculate_cagr_levelup(infy_revenue[1], infy_revenue[ni],
                                                       Norm(ni, 4)).val
                           ELSE NaN
           yoy_tcs      == IF nt > 4
                           THEN calculate_yoy_growth(tcs_revenue[nt], tcs_revenue[nt - 4])
                           ELSE NaN
           yoy_infy     == IF ni > 4
                           THEN calculate_yoy_growth(infy_revenue[ni],
                                                     infy_revenue[ni - 4])
                           ELSE NaN
       IN  kpi' = [cagr_tcs |-> cagr_tcs, cagr_infy |-> cagr_infy,
                   yoy_tcs |-> yoy_tcs, yoy_infy |-> yoy_infy,
                   shown |-> <<kpi_line("CAGR for TCS", cagr_tcs),
                               kpi_line("CAGR for INFY", cagr_infy),
                               kpi_line("YoY Growth for TCS", yoy_tcs),
                               kpi_line("YoY Growth for INFY", yoy_infy)>>]
    /\ pc' = "done"
    /\ UNCHANGED <<exc, selected_stocks, loaded, fetched, stock_data, revenue_data_all,
                   aligned_df, growth_df, pivot_df, qoq_growth, yoy_growth,
                   cagr_data, best_worst, bound, snapshot, callVars, priceVars,
                   finVars, fnVars>>

\* "CAGR & YoY Growth Analysis" (lines 240-302)
LevelupKpis ==
    /\ pc = "kpi"
    /\ "growth_df" \in bound
    /\ LET tcs_revenue  == revenue_series(growth_df, "TCS")
           infy_revenue == revenue_series(growth_df, "INFY")
           nt           == Len(tcs_revenue)
           ni           == Len(infy_revenue)
           enough       == nt >= 2 /\ ni >= 2
           year_back    == nt > 4 /\ ni > 4
           cagr_tcs     == IF enough
                           THEN calculate_cagr_levelup(tcs_revenue[1], tcs_revenue[nt],
                                                       Norm(nt, 4)).val
                           ELSE NaN
           cagr_infy    == IF enough
                           THEN calculate_cagr_levelup(infy_revenue[1], infy_revenue[ni],
                                                       Norm(ni, 4)).val
                           ELSE NaN
           yoy_tcs      == IF year_back
                           THEN calculate_yoy_growth(tcs_revenue[nt], tcs_revenue[nt - 4])
                           ELSE NaN
           yoy_infy     == IF year_back
                           THEN calculate_yoy_growth(infy_revenue[ni],
                                                     infy_revenue[ni - 4])
                           ELSE NaN
       IN  kpi' = [cagr_tcs |-> cagr_tcs, cagr_infy |-> cagr_infy,
                   yoy_tcs |-> yoy_tcs, yoy_infy |-> yoy_infy,
                   shown |-> <<kpi_line("CAGR for TCS", cagr_tcs),
                               kpi_line("CAGR for INFY", cagr_infy),
                               kpi_line("YoY Growth for TCS", yoy_tcs),
                               kpi_line("YoY Growth for INFY", yoy_infy)>>]
    /\ pc' = "done"
    /\ UNCHANGED <<exc, selected_stocks, loaded, fetched, stock_data, revenue_data_all,
                   aligned_df, growth_df, pivot_df, qoq_growth, yoy_growth,
                   cagr_data, best_worst, bound, snapshot, callVars, priceVars,
                   finVars, fnVars>>

NextLevelup ==
    \/ LevelupLoadStock \/ LoadDone \/ Tab2Skip \/ Tab2
    \/ LevelupTab3Skip \/ LevelupTab3 \/ LevelupKpisUnbound \/ LevelupKpis

SpecLevelup == Init /\ [][NextLevelup]_vars

----------------------------------------------------------------------------
(* Project.py on longer revenue series, reported in any rotation of the    *)
(* newest-first or of the oldest-first order                               *)

MaxQuarters == 6

\* the 'Total Revenue' rows of the latest n quarters: newest first or oldest
\* first, rotated by k rows; the revenue of a quarter is its number
QuarterRows ==
    {[i \in 1..n |->
        LET j == ((i - 1 + k) % n) + 1
            q == IF newest_first THEN n + 1 - j ELSE j
        IN  <<to_datetime(QuarterEnds[q]), q>>] :
        n \in 1..MaxQuarters, k \in 0..(MaxQuarters - 1),
        newest_first \in BOOLEAN}

\* one iteration of the load loop on such a series
LoadQuarters ==
    LoadStockFrom({[Close |-> SomePrices, fin |-> [kind |-> "table", rows |-> t]] :
                      t \in QuarterRows})

NextQuarters ==
    LoadQuarters \/ LoadDone \/ Tab2Skip \/ Tab2 \/ Tab3Skip \/ Tab3

SpecQuarters == Init /\ [][NextQuarters]_vars

----------------------------------------------------------------------------
(* The CAGR helpers called on their own *)

MaxCagrValue == 4
MaxPeriods == 3

\* start and end values; the number of periods is a count of years or a
\* count of quarters over 4, and may be zero or negative
CagrInputs ==
    {<<Num(a), Num(b), Norm(p, q)>> :
        a \in 0..MaxCagrValue, b \in 0..MaxCagrValue,
        p \in -1..MaxPeriods, q \in {1, 4}}

InitCagr ==
    /\ pc = "call"
    /\ exc = "none"
    /\ cagr_args \in CagrInputs
    /\ cagr_call = NoCall
    /\ PipeIdle
    /\ PriceIdle
    /\ FinIdle
    /\ FnIdle

CallResult(variant, call) ==
    /\ pc = "call"
    /\ cagr_call' = [variant |-> variant, exc |-> call.exc, val |-> call.val]
    /\ pc' = "returned"
    /\ UNCHANGED <<exc, cagr_args, pipeVars, priceVars, finVars, fnVars>>

CallCagrLevelup ==
    CallResult("levelup",
               calculate_cagr_levelup(cagr_args[1], cagr_args[2], cagr_args[3]))

CallCagrClg ==
    CallResult("clg",
               calculate_cagr_clg(cagr_args[1], cagr_args[2], cagr_args[3]))

CallCagrFinance ==
    CallResult("Finance",
               calculate_cagr_Finance(cagr_args[1], cagr_args[2], cagr_args[3]))

CallCagrProject ==
    CallResult("Project",
               cagr_Project(cagr_args[1], cagr_args[2], cagr_args[3]))

NextCagr == CallCagrLevelup \/ CallCagrClg \/ CallCagrFinance \/ CallCagrProject

SpecCagr == InitCagr /\ [][NextCagr]_vars

----------------------------------------------------------------------------
(* load_data(ticker) called on its own *)

MaxCloseLen == 22
MaxPrice == 3

\* closing prices: a and then b, changing after the k-th day
CloseSeries ==
    {[i \in 1..n |-> IF i <= k THEN Num(a) ELSE Num(b)] :
        n \in 0..MaxCloseLen, k \in 0..MaxCloseLen,
        a \in 1..MaxPrice, b \in 1..MaxPrice}

InitPrices ==
    /\ pc = "call"
    /\ exc = "none"
    /\ download \in CloseSeries
    /\ price_df = NoPriceTable
    /\ PipeIdle
    /\ CallIdle
    /\ FinIdle
    /\ FnIdle

\* df = load_data(ticker) (Project.py lines 29-38)
LoadPrices ==
    /\ pc = "call"
    /\ price_df' = load_data(download)
    /\ pc' = "returned"
    /\ UNCHANGED <<exc, download, pipeVars, callVars, finVars, fnVars>>

NextPrices == LoadPrices

SpecPrices == InitPrices /\ [][NextPrices]_vars

----------------------------------------------------------------------------
(* Finance.py: the script runs top to bottom *)

NumYears == 3
MaxFinRevenue == 1
FirstYear == 2016

FinYears == FirstYear..(FirstYear + NumYears - 1)

\* the set S in ascending order
RECURSIVE SortedSeq(_)
SortedSeq(S) ==
    IF S = {} THEN <<>>
    ELSE LET m == CHOOSE x \in S : \A y \in S : x <= y
         IN  <<m>> \o SortedSeq(S \ {m})

\* what load_data() reads from one CSV file: one row per reported year
FinTables ==
    UNION {{[i \in 1..Len(SortedSeq(Y)) |->
                [Year |-> SortedSeq(Y)[i], Revenue |-> Num(rev[SortedSeq(Y)[i]])]] :
            rev \in [Y -> 0..MaxFinRevenue]} :
        Y \in (SUBSET FinYears) \ {{}}}

\* df['Company'] = name
SetCompany(df, name) ==
    [i \in 1..Len(df) |->
        [Year |-> df[i].Year, Revenue |-> df[i].Revenue, Company |-> name]]

YearsOf(df) == {df[i].Year : i \in 1..Len(df)}

\* df[df['Year'] == year]['Revenue'].mean(): NaN when no row has the year
MeanRevenue(df, year) ==
    LET sel == SelectSeq(df, LAMBDA r : r.Year = year)
    IN  Div(Sum([i \in 1..Len(sel) |-> sel[i].Revenue]), Num(Len(sel)))

Min(S) == CHOOSE x \in S : \A y \in S : x <= y
Max(S) == CHOOSE x \in S : \A y \in S : y <= x

InitFinance ==
    /\ pc = "filter"
    /\ exc = "none"
    /\ tcs \in FinTables
    /\ infosys \in FinTables
    /\ option \in {"TCS", "Infosys", "Both"}
    /\ data = <<>>
    /\ cagr_table = <<>>
    /\ PipeIdle
    /\ CallIdle
    /\ PriceIdle
    /\ FnIdle

\* "Filtered data" (lines 38-45), one company
FilterOne ==
    /\ pc = "filter"
    /\ option # "Both"
    /\ data' = IF option = "TCS" THEN tcs ELSE infosys
    /\ pc' = "cagr"
    /\ UNCHANGED <<exc, tcs, infosys, option, cagr_table, pipeVars, callVars,
                   priceVars, fnVars>>

\* "Filtered data" (lines 38-45), both companies: the Company column is
\* written into the two loaded tables
FilterBoth ==
    /\ pc = "filter"
    /\ option = "Both"
    /\ tcs' = SetCompany(tcs, "TCS")
    /\ infosys' = SetCompany(infosys, "Infosys")
    /\ data' = SetCompany(tcs, "TCS") \o SetCompany(infosys, "Infosys")
    /\ pc' = "cagr"
    /\ UNCHANGED <<exc, option, cagr_table, pipeVars, callVars, priceVars, fnVars>>

\* "CAGR Comparison" (lines 77-91) for one company: no table
CagrSkip ==
    /\ pc = "cagr"
    /\ option # "Both"
    /\ pc' = "done"
    /\ UNCHANGED <<exc, finVars, pipeVars, callVars, priceVars, fnVars>>

\* "CAGR Comparison" (lines 77-91) for both companies
CagrBoth ==
    /\ pc = "cagr"
    /\ option = "Both"
    /\ LET start_year == Min(YearsOf(data))
           end_year   == Max(YearsOf(data))
           tcs_cagr   == calculate_cagr_Finance(MeanRevenue(tcs, start_year),
                                                MeanRevenue(tcs, end_year),
                                                Num(end_year - start_year))
           info_cagr  == calculate_cagr_Finance(MeanRevenue(infosys, start_year),
                                                MeanRevenue(infosys, end_year),
                                                Num(end_year - start_year))
       IN  cagr_table' =
               <<[Company |-> "TCS", CAGR |-> round2(tcs_cagr.val),
                  start_year |-> start_year, end_year |-> end_year],
                 [Company |-> "Infosys", CAGR |-> round2(info_cagr.val),
                  start_year |-> start_year, end_year |-> end_year]>>
    /\ pc' = "done"
    /\ UNCHANGED <<exc, tcs, infosys, option, data, pipeVars, callVars, priceVars, fnVars>>

NextFinance == FilterOne \/ FilterBoth \/ CagrSkip \/ CagrBoth

SpecFinance == InitFinance /\ [][NextFinance]_vars

----------------------------------------------------------------------------
(* The forecast functions called on their own: the linear-regression       *)
(* forecast of clg.py and forecast(df) of Finance.py                       *)

MaxObs == 3
MaxObsValue == 2
MaxFinRows == 3
MaxRatioRows == 2
YearsEnd == 2024
ForecastHorizon == 3

\* Series.mean(): NaN entries are skipped, the mean of nothing is NaN
mean_skipna(xs) ==
    LET kept == SelectSeq(xs, LAMBDA v : ~IsNaN(v))
    IN  IF kept = <<>> THEN NaN ELSE Div(Sum(kept), Num(Len(kept)))

\* yearly_mean with the years in the order the rows list them
yearly_mean_row_order(df) ==
    LET first == SelectSeq([i \in 1..Len(df) |-> i],
                           LAMBDA i : \A j \in 1..(i - 1) : df[j].Year # df[i].Year)
    IN  [k \in 1..Len(first) |-> MeanRevenue(df, df[first[k]].Year)]

\* df.groupby('Year')['Revenue'].mean(): one mean per year, years ascending
yearly_mean(df) ==
    LET ys == SortedSeq(YearsOf(df))
    IN  [k \in 1..Len(ys) |-> MeanRevenue(df, ys[k])]

\* Series.pct_change(): x[k] / x[k-1] - 1, NaN at the first position
series_pct_change(xs) ==
    [k \in 1..Len(xs) |-> IF k = 1 THEN NaN ELSE Sub(Div(xs[k], xs[k - 1]), One)]

\* forecast(df) (Finance.py lines 95-102): the rows of the returned frame
forecast(df) ==
    LET growth_rate == mean_skipna(series_pct_change(yearly_mean(df)))
        last_year   == IF df = <<>> THEN NaN ELSE Num(Max(YearsOf(df)))
        last_value  == IF df = <<>> THEN NaN
                       ELSE MeanRevenue(df, Max(YearsOf(df)))
    IN  [i \in 1..ForecastHorizon |->
            [Year |-> Add(last_year, Num(i)),
             Forecast_Revenue |->
                 Mul(last_value, Pow(Add(One, growth_rate), Num(i)))]]

\* the years the regression is evaluated at (clg.py line 130)
future_years == <<2024, 2025, 2026>>

\* LinearRegression_fit without an intercept: the line through the origin
LinearRegression_fit_origin(X, y) ==
    IF X = <<>> THEN [exc |-> "ValueError", coef |-> NaN, intercept |-> NaN]
    ELSE LET n   == Len(X)
             sxx == Sum([i \in 1..n |-> Mul(Num(X[i]), Num(X[i]))])
             sxy == Sum([i \in 1..n |-> Mul(Num(X[i]), y[i])])
         IN  [exc |-> "none", coef |-> Div(sxy, sxx), intercept |-> Zero]

\* LinearRegression().fit(X, y): the least-squares line, as
\* [exc, coef, intercept]; with a single sample the minimum-norm solution
\* has slope 0, with no sample fit raises ValueError
LinearRegression_fit(X, y) ==
    IF X = <<>> THEN [exc |-> "ValueError", coef |-> NaN, intercept |-> NaN]
    ELSE LET n   == Len(X)
             xm  == Div(Sum([i \in 1..n |-> Num(X[i])]), Num(n))
             ym  == Div(Sum(y), Num(n))
             sxx == Sum([i \in 1..n |-> Mul(Sub(Num(X[i]), xm), Sub(Num(X[i]), xm))])
             sxy == Sum([i \in 1..n |-> Mul(Sub(Num(X[i]), xm), Sub(y[i], ym))])
             b   == IF sxx = Zero THEN Zero ELSE Div(sxy, sxx)
         IN  [exc |-> "none", coef |-> b, intercept |-> Sub(ym, Mul(b, xm))]

\* model.predict(future_years)
predict(model, xs) ==
    [i \in 1..Len(xs) |-> Add(model.intercept, Mul(model.coef, Num(xs[i])))]

\* the forecast section of clg.py (lines 129-138) for one company: the rows
\* of df_forecast
linear_forecast(years, revenue) ==
    LET model == LinearRegression_fit(years, revenue)
        Year  == years \o future_years
        value == revenue \o predict(model, future_years)
    IN  IF model.exc # "none" THEN [exc |-> model.exc, rows |-> <<>>]
        ELSE [exc |-> "none",
              rows |-> [i \in 1..Len(Year) |->
                           [Year |-> Num(Year[i]), Revenue |-> value[i]]]]

\* years = list(range(a, 2024)) with n years, and one revenue per year
LinearInputs ==
    {[fn |-> "linear_forecast",
      years |-> [i \in 1..n |-> YearsEnd - n - 1 + i],
      revenue |-> [i \in 1..n |-> Num(r[i])]] :
        n \in 0..MaxObs, r \in [1..MaxObs -> 0..MaxObsValue]}

\* the Year column of a table of MaxFinRows rows: the years in any order, a
\* year may have several rows, and the years present are the first years of
\* FinYears
YearColumns ==
    {y \in [1..MaxFinRows -> FinYears] :
        \A k \in FinYears :
            (\E i \in 1..MaxFinRows : y[i] = k) =>
                \A j \in FinYears : j < k => \E i \in 1..MaxFinRows : y[i] = j}

\* a table with Year and Revenue columns: the first n rows of such a table
GrowthInputs ==
    {[fn |-> "forecast",
      df |-> [i \in 1..n |-> [Year |-> y[i], Revenue |-> Num(r[i])]]] :
        n \in 0..MaxFinRows, y \in YearColumns,
        r \in [1..MaxFinRows -> 0..MaxObsValue]}

\* df.copy(): a new table with the same rows; the caller keeps its own
copy(df) == [caller |-> df, local |-> df]

\* compute_ratios dividing every row's Net_Profit by the Revenue of the
\* first row
compute_ratios_first_revenue(df) ==
    [df |-> df,
     rows |-> [i \in 1..Len(df) |->
                  [Year |-> df[i].Year,
                   Operating_Margin_pct |-> df[i].Operating_Margin,
                   Net_Profit_Margin_pct |->
                       Mul(Div(df[i].Net_Profit, df[1].Revenue), Hundred)]]]

\* compute_ratios(df) (Finance.py lines 120-124): the two columns are
\* written to the local copy, the returned frame selects three columns of it
compute_ratios(df) ==
    LET frames == copy(df)
        local  == [i \in 1..Len(frames.local) |->
                      [Year |-> frames.local[i].Year,
                       Revenue |-> frames.local[i].Revenue,
                       Net_Profit |-> frames.local[i].Net_Profit,
                       Operating_Margin |-> frames.local[i].Operating_Margin,
                       Operating_Margin_pct |-> frames.local[i].Operating_Margin,
                       Net_Profit_Margin_pct |->
                           Mul(Div(frames.local[i].Net_Profit,
                                   frames.local[i].Revenue), Hundred)]]
    IN  [df |-> frames.caller,
         rows |-> [i \in 1..Len(local) |->
                      [Year |-> local[i].Year,
                       Operating_Margin_pct |-> local[i].Operating_Margin_pct,
                       Net_Profit_Margin_pct |-> local[i].Net_Profit_Margin_pct]]]

\* a table with Year, Revenue, Net_Profit and Operating_Margin columns, its
\* rows in ascending or in descending order of Year
RatioInputs ==
    {[fn |-> "compute_ratios",
      df |-> [i \in 1..n |->
                 [Year |-> IF asc THEN FirstYear + i - 1 ELSE FirstYear + n - i,
                  Revenue |-> Num(t[i][1]),
                  Net_Profit |-> Num(t[i][2]),
                  Operating_Margin |-> Num(20 * t[i][2])]]] :
        n \in 0..MaxRatioRows, asc \in BOOLEAN,
        t \in [1..MaxRatioRows -> (0..MaxObsValue) \X (0..MaxObsValue)]}

\* get_revenue_data(ticker, name): what quarterly_financials does for the
\* ticker, and the company name
RevenueInputs ==
    {[fn |-> "get_revenue_data", fin |-> fin, name |-> name] :
        fin \in RevenueOutcomes, name \in Companies}

InitCalls ==
    /\ pc = "call"
    /\ exc = "none"
    /\ call_in \in LinearInputs \cup GrowthInputs \cup RatioInputs
                    \cup RevenueInputs
    /\ call_out = NoResult
    /\ in_flight = <<>>
    /\ PipeIdle
    /\ CallIdle
    /\ PriceIdle
    /\ FinIdle

\* the forecast section of clg.py on one company's revenue list
CallLinearForecast ==
    /\ pc = "call"
    /\ call_in.fn = "linear_forecast"
    /\ call_out' = linear_forecast(call_in.years, call_in.revenue)
    /\ pc' = "returned"
    /\ UNCHANGED <<exc, call_in, in_flight, pipeVars, callVars, priceVars, finVars>>

\* forecast(df) of Finance.py: df is rebound to a sorted copy, the caller's
\* table is not written
CallForecast ==
    /\ pc = "call"
    /\ call_in.fn = "forecast"
    /\ call_out' = [exc |-> "none", rows |-> forecast(call_in.df)]
    /\ pc' = "returned"
    /\ UNCHANGED <<exc, call_in, in_flight, pipeVars, callVars, priceVars, finVars>>

\* compute_ratios(df) of Finance.py
CallComputeRatios ==
    /\ pc = "call"
    /\ call_in.fn = "compute_ratios"
    /\ call_out' = [exc |-> "none", rows |-> compute_ratios(call_in.df).rows]
    /\ call_in' = [call_in EXCEPT !.df = compute_ratios(call_in.df).df]
    /\ pc' = "returned"
    /\ UNCHANGED <<exc, in_flight, pipeVars, callVars, priceVars, finVars>>

\* get_revenue_data(ticker, name) (Project.py lines 42-59): the try block
\* catches whatever the provider raises
CallGetRevenueData ==
    /\ pc = "call"
    /\ call_in.fn = "get_revenue_data"
    /\ call_out' = [exc |-> "none",
                    rows |-> get_revenue_data(call_in.fin, call_in.name)]
    /\ pc' = "returned"
    /\ UNCHANGED <<exc, call_in, in_flight, pipeVars, callVars, priceVars, finVars>>

NextCalls ==
    CallLinearForecast \/ CallForecast \/ CallComputeRatios \/ CallGetRevenueData

SpecCalls == InitCalls /\ [][NextCalls]_vars

----------------------------------------------------------------------------
(* Calls in flight together: two calls of one function with the same       *)
(* arguments and one other call of it, each entered and returned in its    *)
(* own step, so that the steps of the three calls interleave.              *)

MaxArg == 2

CallIds == {"first", "second", "other"}

\* one namespace at module level for the names of every call
frame_module_level(id) == "first"

\* the namespace that holds a call's parameters and the names its body
\* assigns: the frame of that call (no function body declares a global)
frame_of(id) == id

\* fn(*args)
Apply(fn, args) ==
    CASE fn = "calculate_cagr" ->
             calculate_cagr_levelup(args[1], args[2], args[3])
      [] fn = "calculate_yoy_growth" -> calculate_yoy_growth(args[1], args[2])
      [] fn = "forecast" -> forecast(args[1])

\* the arguments of a call: revenues and a number of years counted in
\* quarters for calculate_cagr, two revenues for calculate_yoy_growth, a
\* table of two rows for forecast
CallInputs ==
    {[fn |-> "calculate_cagr", args |-> <<Num(a), Num(b), Norm(q, 4)>>] :
        a \in 0..MaxArg, b \in 0..MaxArg, q \in 0..MaxArg}
    \cup {[fn |-> "calculate_yoy_growth", args |-> <<Num(a), Num(b)>>] :
             a \in 0..MaxArg, b \in 0..MaxArg}
    \cup {[fn |-> "forecast",
           args |-> <<[i \in 1..2 |->
                         [Year |-> FirstYear + y[i], Revenue |-> Num(r[i])]]>>] :
             y \in [1..2 -> 0..1], r \in [1..2 -> 0..MaxArg]}

\* the arguments of the other call of the same function
OtherArgs(fn) ==
    CASE fn = "calculate_cagr" -> <<Num(1), Num(2), Norm(1, 4)>>
      [] fn = "calculate_yoy_growth" -> <<Num(2), Num(1)>>
      [] fn = "forecast" ->
             <<<<[Year |-> FirstYear, Revenue |-> Num(1)],
                 [Year |-> FirstYear + 1, Revenue |-> Num(2)]>>>>

\* a call not yet made
Pending(fn, args) ==
    [fn |-> fn, args |-> args, at |-> "idle", locals |-> <<>>,
     overlapped |-> FALSE, result |-> <<>>]

InitInFlight ==
    /\ pc = "call"
    /\ exc = "none"
    /\ call_in = NoFn
    /\ call_out = NoResult
    /\ \E x \in CallInputs :
          in_flight = [id \in CallIds |->
                          IF id = "other" THEN Pending(x.fn, OtherArgs(x.fn))
                          ELSE Pending(x.fn, x.args)]
    /\ PipeIdle
    /\ CallIdle
    /\ PriceIdle
    /\ FinIdle

\* the 'Both' branch of Finance.py (lines 43-44) ahead of forecast(tcs): the
\* table the call is about to receive gets its Company column
FilterBeforeCall(id) ==
    /\ in_flight[id].at = "idle"
    /\ in_flight[id].fn = "forecast"
    /\ in_flight[id].args[1] # <<>>
    /\ "Company" \notin DOMAIN in_flight[id].args[1][1]
    /\ in_flight' = [in_flight EXCEPT
                        ![id].args = <<SetCompany(in_flight[id].args[1], "TCS")>>]
    /\ UNCHANGED <<pc, exc, call_in, call_out, pipeVars, callVars, priceVars,
                   finVars>>

\* the call is entered: its parameters are bound in its frame
Enter(id) ==
    /\ in_flight[id].at = "idle"
    /\ LET others == {o \in CallIds \ {id} : in_flight[o].at = "entered"}
           bound_ == [in_flight EXCEPT
                         ![frame_of(id)].locals = in_flight[id].args]
       IN  in_flight' =
               [o \in CallIds |->
                   IF o = id
                   THEN [bound_[o] EXCEPT !.at = "entered",
                                          !.overlapped = others # {}]
                   ELSE IF o \in others
                   THEN [bound_[o] EXCEPT !.overlapped = TRUE]
                   ELSE bound_[o]]
    /\ UNCHANGED <<pc, exc, call_in, call_out, pipeVars, callVars, priceVars,
                   finVars>>

\* the body runs on the names of the frame and the call returns
Return(id) ==
    /\ in_flight[id].at = "entered"
    /\ in_flight' =
           [in_flight EXCEPT
               ![id].at = "returned",
               ![id].result =
                   Apply(in_flight[id].fn, in_flight[frame_of(id)].locals)]
    /\ UNCHANGED <<pc, exc, call_in, call_out, pipeVars, callVars, priceVars,
                   finVars>>

NextInFlight ==
    \E id \in CallIds : FilterBeforeCall(id) \/ Enter(id) \/ Return(id)

SpecInFlight == InitInFlight /\ [][NextInFlight]_vars

----------------------------------------------------------------------------
(* Claims *)

\* the columns of pivot_df for which the CAGR loop reached its computation
\* with a zero start value or a non-positive number of years
C1_BadCagrInput(c) ==
    /\ pivot_df.rows # <<>>
    /\ c \in Range(pivot_df.columns)
    /\ \/ pivot_df.rows[1].val[c] = Zero
       \/ Le(n_years(pivot_df), Zero)

\* C1: whenever start_value == 0 or num_periods <= 0 the CAGR computation
\* returns NaN and does not raise.  Stated of the CAGR loop of Project.py:
\* once tab3 has run, every company whose first common revenue is 0, or
\* whose common quarters span 0 days, has a NaN entry in cagr_data and the
\* script has not ended in an exception.
C1_CagrUndefinedIsNaN ==
    pc = "done" =>
        \A c \in Companies :
            C1_BadCagrInput(c) =>
                /\ exc = "none"
                /\ \E k \in DOMAIN cagr_data : cagr_data[k] = <<c, NaN>>

\* start * (1 + r/100) ** periods for a returned percentage r; NaN when r is
\* not a number
C2_Reverse(start, r, periods) ==
    LET back == PowFactor(FactorOfPct(r), periods)
    IN  IF IsSym(back) THEN NaN ELSE Mul(start, back)

\* C2: for start > 0, periods > 0 and end >= 0 every CAGR helper returns a
\* defined percentage r with start * (1 + r/100) ** periods = end, and an
\* end value of 0 gives -100.
C2_CagrRoundTrip ==
    (/\ pc = "returned"
     /\ Lt(Zero, cagr_args[1])
     /\ Lt(Zero, cagr_args[3])
     /\ Le(Zero, cagr_args[2]))
    => /\ cagr_call.exc = "none"
       /\ ~IsNaN(cagr_call.val)
       /\ C2_Reverse(cagr_args[1], cagr_call.val, cagr_args[3]) = cagr_args[2]
       /\ (cagr_args[2] = Zero => cagr_call.val = Num(-100))

\* tab3 has run on revenue rows (all of its tables up to the CAGR loop exist)
Tab3Ran == pc = "done" /\ revenue_data_all # <<>>

\* (value[i] - value[i-lag]) / value[i-lag] * 100
GrowthPct(cur, prev) == Mul(Div(Sub(cur, prev), prev), Hundred)

\* the growth table g holds exactly the rows lag+1.. of the frame df, in
\* order, each cell being the growth over the cell lag rows earlier
C3_GrowthTableOf(g, df, lag) ==
    /\ Len(g.rows) = (IF Len(df.rows) > lag THEN Len(df.rows) - lag ELSE 0)
    /\ \A k \in DOMAIN g.rows :
          /\ g.rows[k].Quarter = df.rows[k + lag].Quarter
          /\ \A c \in Range(df.columns) :
                g.rows[k].val[c] =
                    GrowthPct(df.rows[k + lag].val[c], df.rows[k].val[c])

\* C3: the period-over-period growth of a series of n points with lag l has
\* exactly max(n - l, 0) points, one per index i >= l in source order, each
\* (value[i] - value[i-l]) / value[i-l] * 100.  Stated of the QoQ table
\* (lag 1) and the YoY table (lag 4) of Project.py.
C3_GrowthDropsOnlyLeadingPoints ==
    Tab3Ran =>
        /\ C3_GrowthTableOf(qoq_growth, pivot_df, 1)
        /\ C3_GrowthTableOf(yoy_growth, yoy_frame(pivot_df), YoYLag)

\* C4: a zero prior value makes only that one growth point NaN: the point is
\* not infinite, and the row of its period is still in the table, with the
\* other company's value.  Stated of the QoQ table of Project.py.
C4_ZeroDivisorOnlyThatPoint ==
    Tab3Ran =>
        \A i \in 2..Len(pivot_df.rows) :
            \E k \in DOMAIN qoq_growth.rows :
                /\ qoq_growth.rows[k].Quarter = pivot_df.rows[i].Quarter
                /\ \A c \in Range(pivot_df.columns) :
                      LET prev == pivot_df.rows[i - 1].val[c]
                          cur  == pivot_df.rows[i].val[c]
                      IN  qoq_growth.rows[k].val[c] =
                              IF prev = Zero THEN NaN ELSE GrowthPct(cur, prev)

\* the rows of company c in a frame
RowsOf(rows, c) == {rows[i] : i \in {j \in DOMAIN rows : rows[j].Company = c}}

\* the row of the earliest quarter among a non-empty set of rows
EarliestRow(rs) ==
    CHOOSE r \in rs : \A o \in rs : o.Quarter = r.Quarter \/ StrLt(r.Quarter, o.Quarter)

\* C5: for every company with aligned rows whose earliest revenue is not 0,
\* the normalized revenue is 100 at the company's first period and
\* value / first_value * 100 at every period.
C5_NormalizedBase100 ==
    Tab3Ran =>
        \A c \in Companies :
            LET rs == RowsOf(aligned_df, c)
                gs == RowsOf(growth_df, c)
            IN  (rs # {} /\ EarliestRow(rs).Revenue # Zero) =>
                    /\ \A r \in rs :
                          \E g \in gs : g.Quarter = r.Quarter /\ g.Revenue = r.Revenue
                    /\ \A g \in gs :
                          /\ \E r \in rs : r.Quarter = g.Quarter
                          /\ Mul(g.Normalized_Revenue, EarliestRow(rs).Revenue)
                                 = Mul(g.Revenue, Hundred)
                          /\ (g.Quarter = EarliestRow(rs).Quarter
                                 => g.Normalized_Revenue = Hundred)

\* a company has two aligned quarters, a non-zero first revenue and a later
\* normalized value other than 100
C5_Witness ==
    /\ Tab3Ran
    /\ \E c \in Companies :
          \E g, h \in RowsOf(growth_df, c) :
              /\ g.Quarter = EarliestRow(RowsOf(aligned_df, c)).Quarter
              /\ StrLt(g.Quarter, h.Quarter)
              /\ g.Revenue # Zero
              /\ g.Normalized_Revenue = Hundred
              /\ IsFinite(h.Normalized_Revenue)
              /\ h.Normalized_Revenue # Hundred

\* C6: when a company's first aligned revenue is 0, every normalized value of
\* that company is NaN, never a finite or infinite number.
C6_ZeroBaseIsUndefined ==
    Tab3Ran =>
        \A c \in Companies :
            LET rs == RowsOf(aligned_df, c)
            IN  (rs # {} /\ EarliestRow(rs).Revenue = Zero) =>
                    \A g \in RowsOf(growth_df, c) : IsNaN(g.Normalized_Revenue)

\* the period markers of company c in a frame
MarkersOf(rows, c) == {r.Quarter : r \in RowsOf(rows, c)}

\* both companies end with the markers both started with, and equally many rows
C8_AlignedOnIntersection ==
    LET common == MarkersOf(revenue_data_all, "TCS")
                      \cap MarkersOf(revenue_data_all, "INFY")
    IN  /\ MarkersOf(aligned_df, "TCS") = common
        /\ MarkersOf(aligned_df, "INFY") = common
        /\ Len(GroupRows(aligned_df, "TCS")) = Len(GroupRows(aligned_df, "INFY"))
        /\ Len(GroupRows(aligned_df, "TCS")) = Cardinality(common)

C10_RowOf(c) == CHOOSE b \in Range(best_worst) : b.Company = c

\* among the rows rs, v is the largest value and q the earliest marker that
\* carries it
C10_IsBest(rs, q, v) ==
    /\ \A r \in rs : Le(r.Revenue, v)
    /\ \E r \in rs : r.Revenue = v /\ r.Quarter = q
    /\ \A r \in rs : r.Revenue = v => (r.Quarter = q \/ StrLt(q, r.Quarter))

\* among the rows rs, v is the smallest value and q the earliest marker that
\* carries it
C10_IsWorst(rs, q, v) ==
    /\ \A r \in rs : Le(v, r.Revenue)
    /\ \E r \in rs : r.Revenue = v /\ r.Quarter = q
    /\ \A r \in rs : r.Revenue = v => (r.Quarter = q \/ StrLt(q, r.Quarter))

\* C10: for every company with aligned rows the best quarter is the earliest
\* quarter carrying the maximum revenue and the worst quarter the earliest
\* quarter carrying the minimum revenue.
C10_BestWorstEarliestOnTie ==
    (Tab3Ran /\ exc = "none") =>
        \A c \in Companies :
            LET rs == RowsOf(aligned_df, c)
            IN  rs # {} =>
                    /\ \E b \in Range(best_worst) : b.Company = c
                    /\ C10_IsBest(rs, C10_RowOf(c).Best_Quarter,
                                  C10_RowOf(c).Max_Revenue)
                    /\ C10_IsWorst(rs, C10_RowOf(c).Worst_Quarter,
                                   C10_RowOf(c).Min_Revenue)

\* best/worst selection has run on a company whose two aligned quarters
\* carry the same revenue, and on one whose quarters differ
C10_Witness ==
    /\ Tab3Ran
    /\ exc = "none"
    /\ \E b \in Range(best_worst) :
          \E r, o \in RowsOf(aligned_df, b.Company) :
              /\ StrLt(r.Quarter, o.Quarter)
              /\ r.Revenue = o.Revenue
              /\ b.Best_Quarter = r.Quarter
              /\ b.Worst_Quarter = r.Quarter
    /\ \E b \in Range(best_worst) : b.Best_Quarter # b.Worst_Quarter

\* v is the sample standard deviation of the observations xs:
\* v >= 0 and v^2 * (n - 1) = sum(x^2) - sum(x)^2 / n
C7_IsSampleStd(v, xs) ==
    LET n   == Len(xs)
        sq  == Sum([i \in 1..n |-> Mul(xs[i], xs[i])])
        tot == Sum(xs)
        v2  == PowFactor(v, Num(2))
    IN  /\ IsSym(v) \/ Le(Zero, v)
        /\ Mul(v2, Num(n - 1)) = Sub(sq, Div(Mul(tot, tot), Num(n)))

\* the k-th point of a result that starts at the Window-th day
C7_PointIsStd(vol, k) ==
    C7_IsSampleStd(vol[k], SubSeq(download, k, k + Window - 1))

\* C7 as stated: the rolling volatility has len(series) - w + 1 points when
\* len(series) >= w and none otherwise, each the sample standard deviation of
\* the trailing w observations; the first w - 1 periods are absent.
C7_VolatilityOmitsLeadingPoints ==
    (pc = "returned") =>
        LET vol == price_df.Volatility
            n   == Len(download)
        IN  /\ Len(vol) = IF n >= Window THEN n - Window + 1 ELSE 0
            /\ \A k \in DOMAIN vol : C7_PointIsStd(vol, k)

\* C7 amended: the rolling volatility has one point per observation; the
\* first w - 1 of them are undefined (NaN) and every later one is the sample
\* standard deviation of the trailing w observations, so len(series) - w + 1
\* points are defined when len(series) >= w and none otherwise.
C7_VolatilityPadsLeadingPoints ==
    (pc = "returned") =>
        LET vol == price_df.Volatility
            n   == Len(download)
        IN  /\ Len(vol) = n
            /\ \A i \in DOMAIN vol :
                  IF i < Window
                  THEN IsNaN(vol[i])
                  ELSE /\ ~IsNaN(vol[i])
                       /\ C7_IsSampleStd(vol[i],
                                         SubSeq(download, i - Window + 1, i))
            /\ Cardinality({i \in DOMAIN vol : ~IsNaN(vol[i])})
                   = IF n >= Window THEN n - Window + 1 ELSE 0

\* load_data has returned a series longer than the window whose last windows
\* have different non-zero deviations
C7_Witness ==
    /\ pc = "returned"
    /\ Len(download) > Window
    /\ LET vol == price_df.Volatility
       IN  /\ Len(vol) = Len(download)
           /\ IsNaN(vol[Window - 1])
           /\ vol[Window] # Zero
           /\ vol[Window + 1] # Zero
           /\ vol[Window] # vol[Window + 1]

\* C9 (Project.py): every row of the normalized growth, the QoQ and YoY
\* tables, and the best/worst table comes from a quarter that every company
\* with revenue rows reports.
C9_ProjectOnAlignedData ==
    Tab3Ran =>
        LET common == common_quarters(revenue_data_all)
        IN  /\ \A i \in DOMAIN aligned_df : aligned_df[i].Quarter \in common
            /\ \A i \in DOMAIN growth_df : growth_df[i].Quarter \in common
            /\ \A i \in DOMAIN pivot_df.rows : pivot_df.rows[i].Quarter \in common
            /\ \A i \in DOMAIN qoq_growth.rows :
                  qoq_growth.rows[i].Quarter \in common
            /\ \A i \in DOMAIN yoy_growth.rows :
                  strftime(yoy_growth.rows[i].Quarter) \in common
            /\ exc = "none" =>
                  \A i \in DOMAIN best_worst :
                      /\ best_worst[i].Best_Quarter \in common
                      /\ best_worst[i].Worst_Quarter \in common

\* C9: the cross-company CAGR table of Finance.py is computed on years that
\* both companies report: its start year and its end year are years of both.
C9_FinanceCagrOnAlignedYears ==
    (pc = "done" /\ option = "Both") =>
        \A i \in DOMAIN cagr_table :
            /\ cagr_table[i].start_year \in YearsOf(tcs) \cap YearsOf(infosys)
            /\ cagr_table[i].end_year \in YearsOf(tcs) \cap YearsOf(infosys)

\* C11: for any selection and any provider outcome the script runs to its
\* end without an uncaught exception.
C11_NoUncaughtException == exc = "none"

\* company c has no revenue row in the latest quarter of revenue_data_all
C12_LatestRevenueMissing(c) ==
    ~ \E i \in DOMAIN revenue_data_all :
          /\ revenue_data_all[i].Company = c
          /\ \A j \in DOMAIN revenue_data_all :
                ~StrLt(revenue_data_all[i].Quarter, revenue_data_all[j].Quarter)

\* C12: each of the four KPIs of levelup.py is written as 'Insufficient Data'
\* exactly when its value is NaN, and the Revenue Gap card shows
\* 'Insufficient Data' whenever the latest-quarter revenue of TCS or of INFY
\* is missing.
C12_InsufficientDataShown ==
    /\ (pc = "done" /\ exc = "none") =>
          LET v == <<kpi.cagr_tcs, kpi.cagr_infy, kpi.yoy_tcs, kpi.yoy_infy>>
          IN  /\ Len(kpi.shown) = 4
              /\ \A i \in 1..4 :
                    (kpi.shown[i].text = "Insufficient Data") <=> IsNaN(v[i])
    /\ (pc \in {"tab3", "kpi", "done"} /\ revenue_data_all # <<>>) =>
          ((C12_LatestRevenueMissing("TCS") \/ C12_LatestRevenueMissing("INFY"))
              => snapshot.gap.text = "Insufficient Data")

\* the linear forecast was called on n observed points and returned
C13_LinearReturned(n) ==
    /\ pc = "returned"
    /\ call_in.fn = "linear_forecast"
    /\ Len(call_in.years) = n
    /\ call_out.exc = "none"

\* C13: the linear forecast fitted on exactly 2 observed points (x1, y1),
\* (x2, y2) returns at every future year x the value of the straight line
\* through them: (f(x) - y1) * (x2 - x1) = (y2 - y1) * (x - x1).
C13_TwoPointForecastIsTheLine ==
    C13_LinearReturned(2) =>
        LET x1 == Num(call_in.years[1])
            x2 == Num(call_in.years[2])
            y1 == call_in.revenue[1]
            y2 == call_in.revenue[2]
        IN  /\ Len(call_out.rows) = 2 + Len(future_years)
            /\ \A k \in 1..Len(future_years) :
                  LET x == Num(future_years[k])
                      f == call_out.rows[2 + k].Revenue
                  IN  /\ IsFinite(f)
                      /\ Mul(Sub(f, y1), Sub(x2, x1)) = Mul(Sub(y2, y1), Sub(x, x1))

\* a two-point fit with a slope has returned its three forecast points
C13_Witness ==
    /\ C13_LinearReturned(2)
    /\ call_in.revenue[1] # call_in.revenue[2]
    /\ Len(call_out.rows) = 5
    /\ call_out.rows[5].Revenue # call_out.rows[4].Revenue

\* the number of distinct observed periods of the series the call was given
C14_ObservedPeriods ==
    IF call_in.fn = "linear_forecast" THEN Len(call_in.years)
    ELSE Cardinality(YearsOf(call_in.df))

\* C14: a forecast on a series with fewer than 2 observed periods is
\* rejected: the call returns no forecast points, neither numbers nor NaN.
C14_ShortSeriesRejected ==
    (pc = "returned" /\ C14_ObservedPeriods < 2) =>
        /\ call_out.exc # "none"
        /\ call_out.rows = <<>>

\* the observed series of the call as (period, value) pairs in period order
C15_Observed ==
    IF call_in.fn = "linear_forecast"
    THEN [i \in 1..Len(call_in.years) |->
             <<Num(call_in.years[i]), call_in.revenue[i]>>]
    ELSE LET ys == SortedSeq(YearsOf(call_in.df))
         IN  [k \in 1..Len(ys) |-> <<Num(ys[k]), MeanRevenue(call_in.df, ys[k])>>]

\* the rows of the result as (period, value) pairs
C15_Result ==
    [i \in 1..Len(call_out.rows) |->
        <<call_out.rows[i].Year,
          IF call_in.fn = "linear_forecast" THEN call_out.rows[i].Revenue
          ELSE call_out.rows[i].Forecast_Revenue>>]

\* C15: a forecast result is the observed series, unchanged and in order,
\* followed by exactly 3 forecast points whose period markers are
\* last_observed + 1, + 2, + 3; for the linear forecast of clg.py and for
\* forecast(df) of Finance.py (stated here for series of 2 or more periods).
C15_ObservedThenForecast ==
    (pc = "returned" /\ C14_ObservedPeriods >= 2) =>
        LET obs == C15_Observed
            n   == Len(obs)
            res == C15_Result
        IN  /\ call_out.exc = "none"
            /\ Len(res) = n + ForecastHorizon
            /\ SubSeq(res, 1, n) = obs
            /\ \A k \in 1..ForecastHorizon :
                  res[n + k][1] = Add(obs[n][1], Num(k))

\* the mean revenue of year y: the sum of its revenues over their number
C16_Mean(df, y) ==
    LET idx == {i \in DOMAIN df : df[i].Year = y}
        RECURSIVE Total(_)
        Total(S) == IF S = {} THEN Zero
                    ELSE LET i == CHOOSE i \in S : TRUE
                         IN  Add(df[i].Revenue, Total(S \ {i}))
    IN  Div(Total(idx), Num(Cardinality(idx)))

\* the arithmetic mean of the fractional changes (m[k] - m[k-1]) / m[k-1] of
\* the yearly means m, years ascending
C16_MeanChange(df) ==
    LET ys == SortedSeq(YearsOf(df))
        RECURSIVE Changes(_)
        Changes(k) ==
            IF k < 2 THEN Zero
            ELSE Add(Div(Sub(C16_Mean(df, ys[k]), C16_Mean(df, ys[k - 1])),
                         C16_Mean(df, ys[k - 1])),
                     Changes(k - 1))
    IN  Div(Changes(Len(ys)), Num(Len(ys) - 1))

\* x multiplied i times by f
RECURSIVE C16_Compound(_, _, _)
C16_Compound(x, f, i) == IF i = 0 THEN x ELSE C16_Compound(Mul(x, f), f, i - 1)

\* the rows of the table in reverse order
C16_Reversed(df) == [i \in 1..Len(df) |-> df[Len(df) + 1 - i]]

\* forecast(df) was called on a table with 2 or more years whose yearly means
\* before the last are not 0, so that every fractional change is defined
C16_ForecastCalled ==
    /\ pc = "returned"
    /\ call_in.fn = "forecast"
    /\ Cardinality(YearsOf(call_in.df)) >= 2
    /\ \A y \in YearsOf(call_in.df) :
          y # Max(YearsOf(call_in.df)) => C16_Mean(call_in.df, y) # Zero

\* C16: the growth-rate forecast returns last_value * (1 + g)^i for
\* i = 1, 2, 3, with last_value the mean revenue of the latest year and g the
\* mean of the year-over-year fractional changes of the yearly means in
\* ascending year order, whatever the order of the rows.
C16_GrowthRateForecast ==
    C16_ForecastCalled =>
        LET df   == call_in.df
            last == C16_Mean(df, Max(YearsOf(df)))
            g    == C16_MeanChange(df)
        IN  /\ Len(call_out.rows) = ForecastHorizon
            /\ \A i \in 1..ForecastHorizon :
                  call_out.rows[i].Forecast_Revenue
                      = C16_Compound(last, Add(One, g), i)
            /\ call_out.rows = forecast(C16_Reversed(df))

\* forecast(df) has returned growing values for a table of three years
\* whose rows are not in year order
C16_Witness ==
    /\ C16_ForecastCalled
    /\ Cardinality(YearsOf(call_in.df)) = 3
    /\ call_in.df[1].Year > call_in.df[2].Year
    /\ call_in.df[1].Revenue # call_in.df[2].Revenue
    /\ IsFinite(call_out.rows[1].Forecast_Revenue)
    /\ Lt(call_out.rows[1].Forecast_Revenue, call_out.rows[2].Forecast_Revenue)

\* compute_ratios(df) has returned
C17_RatiosReturned == pc = "returned" /\ call_in.fn = "compute_ratios"

\* C17: compute_ratios returns one row per input row, in the same order,
\* whose Net Profit Margin (%) is Net_Profit / Revenue * 100 of that row:
\* margin * Revenue = Net_Profit * 100 when Revenue is not 0, and no finite
\* number when it is.
C17_RatioPerRow ==
    C17_RatiosReturned =>
        /\ Len(call_out.rows) = Len(call_in.df)
        /\ \A i \in DOMAIN call_in.df :
              LET row == call_in.df[i]
                  out == call_out.rows[i]
              IN  /\ out.Year = row.Year
                  /\ out.Operating_Margin_pct = row.Operating_Margin
                  /\ IF row.Revenue # Zero
                     THEN /\ IsFinite(out.Net_Profit_Margin_pct)
                          /\ Mul(out.Net_Profit_Margin_pct, row.Revenue)
                                 = Mul(row.Net_Profit, Hundred)
                     ELSE ~IsFinite(out.Net_Profit_Margin_pct)

\* compute_ratios has returned two different margins for two rows given in
\* descending year order: 1 of 2 is 50 per cent
C17_Witness ==
    /\ C17_RatiosReturned
    /\ Len(call_in.df) = 2
    /\ call_in.df[1].Year > call_in.df[2].Year
    /\ call_in.df[1].Net_Profit = Num(1)
    /\ call_in.df[1].Revenue = Num(2)
    /\ call_out.rows[1].Net_Profit_Margin_pct = Num(50)
    /\ call_out.rows[2].Net_Profit_Margin_pct = Num(100)

\* C18: no step of Finance.py changes the loaded tables: selecting a company
\* view, 'Both' included, leaves tcs and infosys with the rows, columns and
\* values they were loaded with.
C18_LoadedTablesUnchanged == [][tcs' = tcs /\ infosys' = infosys]_vars

\* C19: an operation that needs one or two observed points and gets fewer is
\* rejected with an error: when levelup.py's aligned series of TCS or INFY
\* has fewer than 2 points (an empty one included), the run ends with an
\* exception instead of a value for the KPIs.
C19_ShortSeriesRaisesError ==
    (/\ pc = "done"
     /\ "growth_df" \in bound
     /\ \E c \in Companies : Len(revenue_series(growth_df, c)) < 2)
    => exc # "none"

\* the calls that have returned
C20_Returned == {id \in CallIds : in_flight[id].at = "returned"}

C21_Quarters(rows, c) ==
    LET sel == GroupRows(rows, c)
    IN  [i \in 1..Len(sel) |-> sel[i].Quarter]

\* the markers of a series are strings in strictly ascending order
C21_AscendingStr(qs) ==
    \A i \in 1..(Len(qs) - 1) : StrLt(qs[i], qs[i + 1])

\* the index of a growth table in row order
C21_Index(df) == [i \in 1..Len(df.rows) |-> df.rows[i].Quarter]

\* the markers of qs that occur in the set keep, in the order of qs
C21_Kept(qs, keep) == SelectSeq(qs, LAMBDA q : q \in keep)

\* C21: once tab3 has run, whatever the order in which the provider listed
\* the quarters, each company's rows of aligned_df have their Quarter in
\* ascending chronological order, growth_df lists each company's quarters
\* in exactly that order, and the QoQ and the YoY table list the quarters
\* they keep in the ascending order of the pivot they are derived from.
C21_DerivedSeriesKeepAscendingOrder ==
    (pc = "done" /\ "growth_df" \in bound) =>
        /\ \A c \in Companies :
              /\ C21_AscendingStr(C21_Quarters(aligned_df, c))
              /\ C21_Quarters(growth_df, c) = C21_Quarters(aligned_df, c)
        /\ C21_AscendingStr(C21_Index(pivot_df))
        /\ C21_Index(qoq_growth) =
               C21_Kept(C21_Index(pivot_df), Range(C21_Index(qoq_growth)))
        /\ \A i \in 1..(Len(yoy_growth.rows) - 1) :
              yoy_growth.rows[i].Quarter < yoy_growth.rows[i + 1].Quarter
        /\ [i \in 1..Len(yoy_growth.rows) |-> strftime(yoy_growth.rows[i].Quarter)] =
               C21_Kept(C21_Index(pivot_df),
                        {strftime(yoy_growth.rows[i].Quarter) :
                            i \in 1..Len(yoy_growth.rows)})

\* C21 witness: both companies reported the same six quarters, the QoQ table
\* has five rows and the YoY table two
C21_Witness ==
    /\ pc = "done"
    /\ Len(aligned_df) = 12
    /\ Len(qoq_growth.rows) = 5
    /\ Len(yoy_growth.rows) = 2
    /\ yoy_growth.rows[1].val["TCS"] = Num(400)

\* 'YYYY-MM-DD' naming the day of the Timestamp ts
C22_Formatted(q, ts) ==
    /\ Len(q) = 3
    /\ q[2] \in 1..12
    /\ q[3] \in 1..31
    /\ to_datetime(q) = ts

\* C22: get_revenue_data(ticker, name) never raises.  When the provider call
\* throws or the financials have no 'Total Revenue' row the table returned
\* is empty; otherwise it has one row per reported quarter, in the
\* provider's order, with Quarter the 'YYYY-MM-DD' string of the quarter's
\* Timestamp, Revenue the reported value and Company the name passed.
C22_RevenueTableOrEmpty ==
    (pc = "returned" /\ call_in.fn = "get_revenue_data") =>
        /\ call_out.exc = "none"
        /\ call_in.fin.kind # "table" => call_out.rows = <<>>
        /\ call_in.fin.kind = "table" =>
              /\ Len(call_out.rows) = Len(call_in.fin.rows)
              /\ \A i \in DOMAIN call_out.rows :
                    /\ C22_Formatted(call_out.rows[i].Quarter, call_in.fin.rows[i][1])
                    /\ call_out.rows[i].Revenue = Num(call_in.fin.rows[i][2])
                    /\ call_out.rows[i].Company = call_in.name

\* C22 witness: INFY's financials list two quarters, the later one first,
\* and the table returned has the two rows in that order
C22_Witness ==
    /\ pc = "returned"
    /\ call_in.fn = "get_revenue_data"
    /\ call_in.name = "INFY"
    /\ Len(call_out.rows) = 2
    /\ call_out.rows[1].Quarter = <<2023, 9, 30>>
    /\ call_out.rows[2].Quarter = <<2023, 6, 30>>
    /\ call_out.rows[1].Revenue = Num(2)
    /\ call_out.rows[1].Company = "INFY"

\* the place of company c in the selection
C23_Place(c) == CHOOSE i \in DOMAIN selected_stocks : selected_stocks[i] = c

\* C23: after the load loop, revenue_data_all has rows only of selected
\* companies, as many of each as its revenue fetch returned (none when the
\* fetch was empty); the rows of one company are contiguous and ascending
\* by Quarter, the blocks follow the selection order; and stock_data has an
\* entry for exactly the selected companies whose price table had rows.
C23_LoadLoopResult ==
    pc # "load" =>
        /\ Len(fetched) = Len(selected_stocks)
        /\ \A i \in DOMAIN revenue_data_all :
              revenue_data_all[i].Company \in Range(selected_stocks)
        /\ \A k \in DOMAIN selected_stocks :
              /\ Len(GroupRows(revenue_data_all, selected_stocks[k])) =
                     fetched[k].revenue
              /\ selected_stocks[k] \in DOMAIN stock_data <=> fetched[k].prices > 0
        /\ DOMAIN stock_data \subseteq Range(selected_stocks)
        /\ \A i, j \in DOMAIN revenue_data_all :
              i < j =>
                  LET a == revenue_data_all[i]
                      b == revenue_data_all[j]
                  IN  /\ C23_Place(a.Company) <= C23_Place(b.Company)
                      /\ a.Company = b.Company => StrLt(a.Quarter, b.Quarter)

\* C23 witness: INFY was selected before TCS, both fetches returned two
\* quarters and prices, and the two INFY rows precede the two TCS rows
C23_Witness ==
    /\ pc = "tab2"
    /\ selected_stocks = <<"INFY", "TCS">>
    /\ fetched = <<[prices |-> 2, revenue |-> 2], [prices |-> 2, revenue |-> 2]>>
    /\ DOMAIN stock_data = {"INFY", "TCS"}
    /\ Len(revenue_data_all) = 4
    /\ revenue_data_all[1].Company = "INFY"
    /\ revenue_data_all[2].Company = "INFY"
    /\ revenue_data_all[3].Company = "TCS"
    /\ StrLt(revenue_data_all[1].Quarter, revenue_data_all[2].Quarter)

\* the number of rows of company c in growth_df
C24_Points(c) == Len(revenue_series(growth_df, c))

\* the CAGR of company c over its rows of growth_df, with a quarter of the
\* number of observations as the number of years
C24_Cagr(c) ==
    LET x == revenue_series(growth_df, c)
    IN  calculate_cagr_levelup(x[1], x[Len(x)], Norm(Len(x), 4)).val

\* the YoY growth of company c: its last observation against the one four
\* positions earlier
C24_YoY(c) ==
    LET x == revenue_series(growth_df, c)
    IN  calculate_yoy_growth(x[Len(x)], x[Len(x) - 4])

\* C24: levelup.py gates the KPIs jointly.  Both CAGRs are computed, each
\* over (observations / 4) years, when both series of growth_df have at
\* least 2 points, and both are NaN otherwise; both YoY values are computed
\* when both series have more than 4 points, and both are NaN otherwise.
C24_KpisGatedJointly ==
    (pc = "done" /\ exc = "none") =>
        /\ IF C24_Points("TCS") >= 2 /\ C24_Points("INFY") >= 2
           THEN /\ kpi.cagr_tcs = C24_Cagr("TCS")
                /\ kpi.cagr_infy = C24_Cagr("INFY")
           ELSE IsNaN(kpi.cagr_tcs) /\ IsNaN(kpi.cagr_infy)
        /\ IF C24_Points("TCS") > 4 /\ C24_Points("INFY") > 4
           THEN /\ kpi.yoy_tcs = C24_YoY("TCS")
                /\ kpi.yoy_infy = C24_YoY("INFY")
           ELSE IsNaN(kpi.yoy_tcs) /\ IsNaN(kpi.yoy_infy)

\* C24 witness: TCS alone has five quarters of non-zero revenue, enough for
\* its own CAGR and YoY, INFY has none, and all four KPIs are NaN
C24_Witness ==
    /\ pc = "done"
    /\ exc = "none"
    /\ C24_Points("TCS") = 5
    /\ C24_Points("INFY") = 0
    /\ \A i \in 1..5 : revenue_series(growth_df, "TCS")[i] # Zero
    /\ ~IsNaN(C24_YoY("TCS"))
    /\ IsNaN(kpi.cagr_tcs)
    /\ IsNaN(kpi.yoy_tcs)

\* the YoY table Project.py computes from an aligned frame (lines 322 and
\* 335-338)
C25_YoYTable(aligned) == growth_table(yoy_frame(pivot(aligned)), YoYLag)

\* both companies have more than 4 aligned quarters, none with revenue 0
C25_LongNonZeroSeries ==
    /\ \A c \in Companies : Len(GroupRows(aligned_df, c)) > YoYLag
    /\ \A i \in DOMAIN aligned_df : aligned_df[i].Revenue # Zero

\* C25: when both companies have more than 4 aligned quarters of non-zero
\* revenue, the YoY value levelup.py computes for a company is the value
\* in the last row of that company's column of the YoY table Project.py
\* computes from the same aligned frame.
C25_YoYComputationsAgree ==
    (pc = "done" /\ exc = "none" /\ C25_LongNonZeroSeries) =>
        LET yoy  == C25_YoYTable(aligned_df)
            last == yoy.rows[Len(yoy.rows)]
        IN  /\ yoy.rows # <<>>
            /\ kpi.yoy_tcs = last.val["TCS"]
            /\ kpi.yoy_infy = last.val["INFY"]

\* C25 witness: six aligned quarters for both companies; the YoY table has
\* two rows, 400 and then 200 per cent, and levelup.py shows the 200
C25_Witness ==
    /\ pc = "done"
    /\ exc = "none"
    /\ C25_LongNonZeroSeries
    /\ Len(C25_YoYTable(aligned_df).rows) = 2
    /\ C25_YoYTable(aligned_df).rows[1].val["TCS"] = Num(400)
    /\ C25_YoYTable(aligned_df).rows[2].val["TCS"] = Num(200)
    /\ kpi.yoy_tcs = Num(200)
    /\ kpi.yoy_infy = Num(200)

\* the rows of company c at the latest Quarter of revenue_data_all
C26_LatestRows(c) ==
    {i \in DOMAIN revenue_data_all :
        /\ revenue_data_all[i].Company = c
        /\ \A j \in DOMAIN revenue_data_all :
              ~StrLt(revenue_data_all[i].Quarter, revenue_data_all[j].Quarter)}

\* the latest-quarter revenue of company c, when it has one
C26_LatestRevenue(c) ==
    revenue_data_all[CHOOSE i \in C26_LatestRows(c) : TRUE].Revenue

\* C26: when both companies have a revenue at the latest quarter, the
\* Revenue Gap card shows 'Insufficient Data' if either revenue is 0, and
\* otherwise the amount |tcs_rev - infy_rev|, never negative, under the
\* label 'TCS - INFY' if tcs_rev > infy_rev and 'INFY - TCS' if not.
C26_RevenueGapCard ==
    (/\ pc \in {"tab3", "done"}
     /\ C26_LatestRows("TCS") # {}
     /\ C26_LatestRows("INFY") # {})
    => LET t == C26_LatestRevenue("TCS")
           i == C26_LatestRevenue("INFY")
       IN  IF t = Zero \/ i = Zero
           THEN snapshot.gap = Text("Insufficient Data")
           ELSE /\ snapshot.gap.text = "amount"
                /\ snapshot.gap.amount = (IF Lt(t, i) THEN Sub(i, t) ELSE Sub(t, i))
                /\ ~Lt(snapshot.gap.amount, Zero)
                /\ snapshot.gap.label = (IF Lt(i, t) THEN "Revenue Gap (TCS - INFY)"
                                         ELSE "Revenue Gap (INFY - TCS)")

\* C26 witness: at the latest quarter TCS reports 1 and INFY 2, and the card
\* shows 1 under 'INFY - TCS'
C26_Witness ==
    /\ pc = "tab3"
    /\ C26_LatestRows("TCS") # {}
    /\ C26_LatestRows("INFY") # {}
    /\ C26_LatestRevenue("TCS") = Num(1)
    /\ C26_LatestRevenue("INFY") = Num(2)
    /\ snapshot.gap = Amount("Revenue Gap (INFY - TCS)", Num(1))

\* company c has revenue rows, all of a quarter earlier than the latest
\* Quarter of revenue_data_all
C27_ReportsOnlyEarlier(c) ==
    /\ \E i \in DOMAIN revenue_data_all : revenue_data_all[i].Company = c
    /\ C26_LatestRows(c) = {}

\* C27: the snapshot is taken at the single latest Quarter over the rows of
\* all companies.  A company's revenue card shows the revenue of its row at
\* that quarter, and 'No Data' exactly when it has no row there: also when
\* it has rows, all of earlier quarters.
C27_SnapshotAtLatestQuarter ==
    (pc \in {"tab3", "done"} /\ revenue_data_all # <<>>) =>
        /\ IF C26_LatestRows("TCS") = {}
           THEN snapshot.tcs = Text("No Data")
           ELSE snapshot.tcs = Amount("TCS Revenue", C26_LatestRevenue("TCS"))
        /\ IF C26_LatestRows("INFY") = {}
           THEN snapshot.infy = Text("No Data")
           ELSE snapshot.infy = Amount("INFY Revenue", C26_LatestRevenue("INFY"))

\* C27 witness: TCS was loaded first and reports only the earlier quarter,
\* with revenue 2; INFY reports the later one; the TCS card shows 'No Data'
C27_Witness ==
    /\ pc = "tab3"
    /\ C27_ReportsOnlyEarlier("TCS")
    /\ revenue_data_all[1].Company = "TCS"
    /\ revenue_data_all[1].Revenue = Num(2)
    /\ snapshot.tcs = Text("No Data")
    /\ snapshot.infy = Amount("INFY Revenue", Num(1))

\* C28: every revenue row loaded has Net Profit equal to a fifth of its
\* Revenue; its Operating Margin is 20 when the Revenue is not 0, whatever
\* was fetched, and NaN when the Revenue is 0.
C28_OperatingMarginIsTwenty ==
    \A i \in DOMAIN revenue_data_all :
        LET row == revenue_data_all[i]
        IN  /\ Mul(row.Net_Profit, Num(5)) = row.Revenue
            /\ IF row.Revenue = Zero THEN IsNaN(row.Operating_Margin)
               ELSE row.Operating_Margin = Num(20)

\* C28 witness: one company reported revenue 0 and then 2: the margins of
\* its two rows are NaN and 20
C28_Witness ==
    /\ pc = "tab2"
    /\ Len(revenue_data_all) >= 2
    /\ revenue_data_all[1].Company = revenue_data_all[2].Company
    /\ revenue_data_all[1].Revenue = Zero
    /\ revenue_data_all[2].Revenue = Num(2)
    /\ IsNaN(revenue_data_all[1].Operating_Margin)
    /\ revenue_data_all[2].Operating_Margin = Num(20)

====
